---- MODULE Spec2Model ----
(***************************************************************************)
(* A model of the vibecoursing turn pipeline (convex/mistral.ts): the      *)
(* follow-up suggestion engine, the progress aggregator, the LLM gateway   *)
(* and the store mutations behind a learning turn.                         *)
(*                                                                         *)
(* A text is the sequence of its characters, so trimming, whitespace       *)
(* collapsing, lower-casing and the forced trailing question mark are      *)
(* computed the way the code computes them. The engine, the aggregator and *)
(* the gateway each have a specification of their own over their inputs    *)
(* (SpecFollowUp, SpecProgress, SpecGateway); Spec runs the public actions *)
(* against the store, one action at a time.                                *)
(***************************************************************************)
EXTENDS Naturals, Integers, Sequences, FiniteSets, TLC

VARIABLES
    fuPc,          \* follow-up engine run: "start" | "generated" | "done"
    fuResponse,    \* the follow-up model call's outcome (input)
    fuRemaining,   \* remainingTerms handed to the engine (input)
    fuSuggestions, \* what generateFollowUpSuggestions returned
    fuBatch,       \* what ensureFollowUpCount returned (the stored batch)
    gwPc,          \* callMistral: "start" | "fetch" | "sleep" | "returned" | "thrown"
    gwApiKey,      \* whether MISTRAL_API_KEY is configured (input)
    gwSystemPrompt,\* whether the caller passed a systemPrompt (input)
    gwMessages,    \* the roles of the messages the caller passed (input)
    gwAttempt,     \* the local variable attempt
    gwLog,         \* the responses received so far, one per HTTP request
    gwSent,        \* the roles of the messages of the last request body
    gwSleeps,      \* the backoff delays slept so far, in milliseconds
    gwResult,      \* what callMistral returned or threw
    pgPc,          \* progress aggregator run: "start" | "done" | "shown"
    pgPhases,      \* the phase rows handed to buildPhaseProgress (input)
    pgTerms,       \* the values of termState (input)
    pgProgress,    \* what buildPhaseProgress returned
    pgSnapshot,    \* what buildPhaseProgressSnapshot returned
    users,            \* the users table: the identities that have a row
    learningSessions, \* session id -> row
    sessionPhases,    \* rows in insertion order
    sessionTerms,     \* rows in insertion order (the id is the position)
    sessionMessages,  \* rows in insertion order (the id is the position)
    sessionFollowUps, \* rows in insertion order, each with its id
    nextFollowUpId,\* the id the next inserted follow-up row gets
    now,           \* the last value Date.now() returned
    call,          \* per running action: where it is and its local variables
    stream,        \* per request of the streaming route: where its task is, and the frames written
    tmPc,          \* term matcher run: "start" | "done"
    tmBody,        \* the body handed to detectCoveredTerms (input)
    tmTerms,       \* the term rows handed to detectCoveredTerms (input)
    tmMatches      \* the positions of the rows detectCoveredTerms returned

fuVars == <<fuPc, fuResponse, fuRemaining, fuSuggestions, fuBatch>>

gwVars ==
    <<gwPc, gwApiKey, gwSystemPrompt, gwMessages, gwAttempt, gwLog, gwSent, gwSleeps,
      gwResult>>

pgVars == <<pgPc, pgPhases, pgTerms, pgProgress, pgSnapshot>>

storeVars ==
    <<users, learningSessions, sessionPhases, sessionTerms, sessionMessages, sessionFollowUps,
      nextFollowUpId, now>>

coreVars == <<storeVars, call>>

tmVars == <<tmPc, tmBody, tmTerms, tmMatches>>

vars == <<fuVars, gwVars, pgVars, coreVars, stream, tmVars>>

(***************************************************************************)
(* Strings. A text is the sequence of its characters, each a one-character *)
(* string; Chars turns a string literal into that sequence.                *)
(***************************************************************************)

Chars(s) == [i \in 1..Len(s) |-> SubSeq(s, i, i)]

Empty == <<>>

\* A character is a string: the character itself where a string can hold it,
\* and its JavaScript escape (a backslash, u and four hexadecimal digits)
\* where it cannot. A text with such a character is written as a tuple.
\* U+000B
LineTabulation == ""

\* U+00A0
NoBreakSpace == " "

\* U+1680
OghamSpaceMark == " "

\* U+FEFF
ZeroWidthNoBreakSpace == "﻿"

\* U+2028
LineSeparator == "\\u2028"

\* What \s and trim() take as whitespace: the white space and the line
\* terminators of ECMAScript, 25 characters.
WhitespaceChars ==
    {" ", "\t", "\n", "\r", "\f", LineTabulation, NoBreakSpace,
     OghamSpaceMark, ZeroWidthNoBreakSpace, LineSeparator, "\\u2029",
     "\\u2000", "\\u2001", "\\u2002", "\\u2003", "\\u2004", "\\u2005",
     "\\u2006", "\\u2007", "\\u2008", "\\u2009", "\\u200A", "\\u202F",
     "\\u205F", "\\u3000"}

IsSpace(c) == c \in WhitespaceChars

\* The capital letters of ASCII and Latin-1: the basic letters, the letters
\* with a diacritic and the letters NFD leaves whole.
UpperLetters ==
    <<"A", "B", "C", "D", "E", "F", "G", "H", "I", "J", "K", "L", "M", "N",
      "O", "P", "Q", "R", "S", "T", "U", "V", "W", "X", "Y", "Z", "À", "Á",
      "Â", "Ã", "Ä", "Å", "Ç", "È", "É", "Ê", "Ë", "Ì", "Í", "Î", "Ï", "Ñ",
      "Ò", "Ó", "Ô", "Õ", "Ö", "Ù", "Ú", "Û", "Ü", "Ý", "Æ", "Ð", "Ø", "Þ">>

\* Their lower case, in the same order.
LowerLetters ==
    <<"a", "b", "c", "d", "e", "f", "g", "h", "i", "j", "k", "l", "m", "n",
      "o", "p", "q", "r", "s", "t", "u", "v", "w", "x", "y", "z", "à", "á",
      "â", "ã", "ä", "å", "ç", "è", "é", "ê", "ë", "ì", "í", "î", "ï", "ñ",
      "ò", "ó", "ô", "õ", "ö", "ù", "ú", "û", "ü", "ý", "æ", "ð", "ø", "þ">>

\* The capital letters of ASCII.
UpperSet ==
    {"A", "B", "C", "D", "E", "F", "G", "H", "I", "J", "K", "L", "M", "N",
     "O", "P", "Q", "R", "S", "T", "U", "V", "W", "X", "Y", "Z"}

\* The same letters as a set.
CapitalSet ==
    {"A", "B", "C", "D", "E", "F", "G", "H", "I", "J", "K", "L", "M", "N",
     "O", "P", "Q", "R", "S", "T", "U", "V", "W", "X", "Y", "Z", "À", "Á",
     "Â", "Ã", "Ä", "Å", "Ç", "È", "É", "Ê", "Ë", "Ì", "Í", "Î", "Ï", "Ñ",
     "Ò", "Ó", "Ô", "Õ", "Ö", "Ù", "Ú", "Û", "Ü", "Ý", "Æ", "Ð", "Ø", "Þ"}

\* String.prototype.toLowerCase on one character of ASCII and Latin-1.
LowerChar(c) ==
    IF c \in CapitalSet
    THEN LowerLetters[CHOOSE i \in DOMAIN UpperLetters : UpperLetters[i] = c]
    ELSE c

toLowerCase(s) == [i \in 1..Len(s) |-> LowerChar(s[i])]

RECURSIVE trimStart(_)
trimStart(s) ==
    IF s = Empty THEN Empty
    ELSE IF IsSpace(s[1]) THEN trimStart(SubSeq(s, 2, Len(s))) ELSE s

RECURSIVE trimEnd(_)
trimEnd(s) ==
    IF s = Empty THEN Empty
    ELSE IF IsSpace(s[Len(s)]) THEN trimEnd(SubSeq(s, 1, Len(s) - 1)) ELSE s

\* String.prototype.trim
trim(s) == trimEnd(trimStart(s))

\* value.replace(/\s+/g, ' '): every run of whitespace becomes one space. A
\* text whose whitespace is single spaces only is returned as it is.
RECURSIVE collapseRuns(_)
collapseRuns(s) ==
    IF s = Empty THEN Empty
    ELSE IF IsSpace(s[1])
         THEN <<" ">> \o collapseRuns(trimStart(s))
         ELSE <<s[1]>> \o collapseRuns(SubSeq(s, 2, Len(s)))

collapseWhitespace(s) ==
    IF \A i \in 1..Len(s) :
           IsSpace(s[i]) => (s[i] = " " /\ (i = 1 \/ ~IsSpace(s[i - 1])))
    THEN s
    ELSE collapseRuns(s)

endsWith(s, c) == s # Empty /\ s[Len(s)] = c

(***************************************************************************)
(* JSON values as the engine sees them. A value is a record tagged by t:   *)
(* "undef" (missing or null), "str" (with v), "other" (a number, boolean,  *)
(* array or object where a string is expected).                            *)
(***************************************************************************)

Undef == [t |-> "undef"]

Str(s) == [t |-> "str", v |-> s]

NonString == [t |-> "other"]

\* cleanString: the empty text stands for undefined (cleanString never returns
\* an empty string). Calling it on a value that is neither nullish nor a string throws
\* a TypeError (value.trim is not a function): see cleanStringThrows.
cleanString(value) ==
    IF value.t = "str" THEN trim(value.v) ELSE Empty

cleanStringThrows(value) == value.t = "other"

\* normaliseFollowUpPrompt without the forced trailing question mark.
normaliseFollowUpPrompt_NoMark(value) == collapseWhitespace(cleanString(value))

\* normaliseFollowUpPrompt: the empty text stands for undefined.
normaliseFollowUpPrompt(value) ==
    LET cleaned == cleanString(value)
        collapsed == collapseWhitespace(cleaned)
    IN  IF cleaned = Empty THEN Empty
        ELSE IF endsWith(collapsed, "?") THEN collapsed ELSE collapsed \o <<"?">>

(***************************************************************************)
(* Follow-up suggestion engine                                             *)
(***************************************************************************)

\* A payload entry that is no object ("other"), or an object with the JSON
\* values of its prompt and rationale fields.
Entry(prompt, rationale) == [t |-> "obj", prompt |-> prompt, rationale |-> rationale]

NotAnObject == [t |-> "other"]

\* A parsed payload: no object at all, an object whose prompts field is no
\* array, or an object with an array of entries.
Payload(entries) == [t |-> "obj", prompts |-> [t |-> "arr", items |-> entries]]

PayloadWithoutPrompts == [t |-> "obj", prompts |-> [t |-> "other"]]

\* The body of the for loop of normaliseFollowUpSuggestions, from entry i on.
\* The result says whether a TypeError was thrown (cleanString on a prompt or
\* rationale that is neither nullish nor a string) and, if not, the list.
RECURSIVE normaliseEntries(_, _, _, _)
normaliseEntries(rawPrompts, i, suggestions, seen) ==
    IF i > Len(rawPrompts) THEN [threw |-> FALSE, value |-> suggestions]
    ELSE LET entry == rawPrompts[i] IN
         IF entry.t # "obj" THEN normaliseEntries(rawPrompts, i + 1, suggestions, seen)
         ELSE IF cleanStringThrows(entry.prompt) THEN [threw |-> TRUE, value |-> <<>>]
         ELSE LET prompt == normaliseFollowUpPrompt(entry.prompt)
                  signature == toLowerCase(prompt)
              IN  IF prompt = Empty THEN normaliseEntries(rawPrompts, i + 1, suggestions, seen)
                  ELSE IF signature \in seen
                       THEN normaliseEntries(rawPrompts, i + 1, suggestions, seen)
                  ELSE IF cleanStringThrows(entry.rationale)
                       THEN [threw |-> TRUE, value |-> <<>>]
                  ELSE LET pushed == Append(suggestions,
                                            [prompt |-> prompt,
                                             rationale |-> cleanString(entry.rationale)])
                       IN  IF Len(pushed) = 3
                           THEN [threw |-> FALSE, value |-> pushed]
                           ELSE normaliseEntries(rawPrompts, i + 1, pushed,
                                                 seen \cup {signature})

normaliseFollowUpSuggestions(payload) ==
    IF payload.t # "obj" THEN [threw |-> FALSE, value |-> <<>>]
    ELSE normaliseEntries(IF payload.prompts.t = "arr" THEN payload.prompts.items ELSE <<>>,
                          1, <<>>, {})

\* The first loop of ensureFollowUpCount: the cleaned remaining terms, each
\* kept once under case-insensitive comparison, in order.
RECURSIVE uniqueRemainingTerms(_, _, _, _)
uniqueRemainingTerms(remainingTerms, i, unique, seenTerms) ==
    IF i > Len(remainingTerms) THEN unique
    ELSE LET cleaned == cleanString(Str(remainingTerms[i]))
             signature == toLowerCase(cleaned)
         IN  IF cleaned = Empty \/ signature \in seenTerms
             THEN uniqueRemainingTerms(remainingTerms, i + 1, unique, seenTerms)
             ELSE uniqueRemainingTerms(remainingTerms, i + 1, Append(unique, cleaned),
                                       seenTerms \cup {signature})

TemplatePrefix == Chars("Can we explore \"")

TemplateSuffix == Chars("\" next")

TemplatedPrompt(term) == TemplatePrefix \o term \o TemplateSuffix

RationalePrefix == Chars("Reinforces the remaining key term \"")

RationaleSuffix == Chars("\".")

TemplatedRationale(term) == RationalePrefix \o term \o RationaleSuffix

genericFallbacks ==
    << [prompt |-> Chars("What should I practise next to keep making progress"),
        rationale |-> Chars("Keeps the learner focused when no specific key terms remain.")],
       [prompt |-> Chars("Could you suggest an example so I can apply this now"),
        rationale |-> Chars("Encourages immediate application of the latest concept.")] >>

\* The two backfill loops of ensureFollowUpCount share their shape: candidates
\* are taken in order until the target is reached, one already seen is skipped.
RECURSIVE backfill(_, _, _, _, _)
backfill(candidates, i, result, seen, targetCount) ==
    IF i > Len(candidates) \/ Len(result) >= targetCount THEN [result |-> result, seen |-> seen]
    ELSE LET prompt == normaliseFollowUpPrompt(Str(candidates[i].prompt))
             signature == toLowerCase(prompt)
         IN  IF prompt = Empty \/ signature \in seen
             THEN backfill(candidates, i + 1, result, seen, targetCount)
             ELSE backfill(candidates, i + 1,
                           Append(result, [prompt |-> prompt,
                                           rationale |-> candidates[i].rationale]),
                           seen \cup {signature}, targetCount)

slice(list, n) == SubSeq(list, 1, IF Len(list) < n THEN Len(list) ELSE n)

\* ensureFollowUpCount without the generic fallbacks.
ensureFollowUpCount_TermsOnly(suggestions, remainingTerms, targetCount) ==
    IF Len(suggestions) >= targetCount THEN slice(suggestions, targetCount)
    ELSE LET seen0 == {toLowerCase(suggestions[k].prompt) : k \in 1..Len(suggestions)}
             unique == uniqueRemainingTerms(remainingTerms, 1, <<>>, {})
             templated == [k \in 1..Len(unique) |->
                              [prompt |-> TemplatedPrompt(unique[k]),
                               rationale |-> TemplatedRationale(unique[k])]]
         IN  slice(backfill(templated, 1, suggestions, seen0, targetCount).result, targetCount)

ensureFollowUpCount(suggestions, remainingTerms, targetCount) ==
    IF Len(suggestions) >= targetCount THEN slice(suggestions, targetCount)
    ELSE LET seen0 == {toLowerCase(suggestions[k].prompt) : k \in 1..Len(suggestions)}
             unique == uniqueRemainingTerms(remainingTerms, 1, <<>>, {})
             templated == [k \in 1..Len(unique) |->
                              [prompt |-> TemplatedPrompt(unique[k]),
                               rationale |-> TemplatedRationale(unique[k])]]
             afterTerms == backfill(templated, 1, suggestions, seen0, targetCount)
             afterGeneric ==
                 IF Len(afterTerms.result) < targetCount
                 THEN backfill(genericFallbacks, 1, afterTerms.result, afterTerms.seen,
                               targetCount)
                 ELSE afterTerms
         IN  slice(afterGeneric.result, targetCount)

\* The outcome of the follow-up model call as generateFollowUpSuggestions sees
\* it: callMistral threw (k = "error", with the code), the content did not
\* parse as JSON (k = "unparsable"), or it parsed to a payload (k = "json").
LlmError(code) == [k |-> "error", code |-> code]

LlmUnparsable == [k |-> "unparsable"]

LlmJson(payload) == [k |-> "json", payload |-> payload]

\* generateFollowUpSuggestions: everything thrown inside the try is caught and
\* gives the empty list.
generateFollowUpSuggestions(response) ==
    IF response.k # "json" THEN <<>>
    ELSE LET normalised == normaliseFollowUpSuggestions(response.payload)
         IN  IF normalised.threw THEN <<>> ELSE normalised.value

FollowUpTarget == 3

FuIdle ==
    /\ fuPc = "idle"
    /\ fuResponse = LlmUnparsable
    /\ fuRemaining = <<>>
    /\ fuSuggestions = <<>>
    /\ fuBatch = <<>>

(***************************************************************************)
(* Term matcher                                                            *)
(***************************************************************************)

Digits ==
    <<"0", "1", "2", "3", "4", "5", "6", "7", "8", "9">>

DigitSet ==
    {"0", "1", "2", "3", "4", "5", "6", "7", "8", "9"}

LowerSet ==
    {"a", "b", "c", "d", "e", "f", "g", "h", "i", "j", "k", "l", "m", "n",
     "o", "p", "q", "r", "s", "t", "u", "v", "w", "x", "y", "z"}

\* The letters with a diacritic of Latin-1 and what is left of them after
\* normalize('NFD') and the removal of \p{Diacritic}.
AccentedLetters ==
    <<"À", "Á", "Â", "Ã", "Ä", "Å", "Ç", "È", "É", "Ê", "Ë", "Ì", "Í", "Î",
      "Ï", "Ñ", "Ò", "Ó", "Ô", "Õ", "Ö", "Ù", "Ú", "Û", "Ü", "Ý", "à", "á",
      "â", "ã", "ä", "å", "ç", "è", "é", "ê", "ë", "ì", "í", "î", "ï", "ñ",
      "ò", "ó", "ô", "õ", "ö", "ù", "ú", "û", "ü", "ý", "ÿ">>

BaseLetters ==
    <<"A", "A", "A", "A", "A", "A", "C", "E", "E", "E", "E", "I", "I", "I",
      "I", "N", "O", "O", "O", "O", "O", "U", "U", "U", "U", "Y", "a", "a",
      "a", "a", "a", "a", "c", "e", "e", "e", "e", "i", "i", "i", "i", "n",
      "o", "o", "o", "o", "o", "u", "u", "u", "u", "y", "y">>

AccentedSet ==
    {"À", "Á", "Â", "Ã", "Ä", "Å", "Ç", "È", "É", "Ê", "Ë", "Ì", "Í", "Î",
     "Ï", "Ñ", "Ò", "Ó", "Ô", "Õ", "Ö", "Ù", "Ú", "Û", "Ü", "Ý", "à", "á",
     "â", "ã", "ä", "å", "ç", "è", "é", "ê", "ë", "ì", "í", "î", "ï", "ñ",
     "ò", "ó", "ô", "õ", "ö", "ù", "ú", "û", "ü", "ý", "ÿ"}

BaseOf ==
    [c \in AccentedSet |->
        BaseLetters[CHOOSE i \in DOMAIN AccentedLetters : AccentedLetters[i] = c]]

\* The combining mark of each of these letters: g for the grave accent
\* U+0300, a for the acute accent U+0301, c for the circumflex U+0302, t for
\* the tilde U+0303, d for the diaeresis U+0308, r for the ring above U+030A
\* and s for the cedilla U+0327.
AccentMarks ==
    <<"g", "a", "c", "t", "d", "r", "s", "g", "a", "c", "d", "g", "a", "c",
      "d", "t", "g", "a", "c", "t", "d", "g", "a", "c", "d", "a", "g", "a",
      "c", "t", "d", "r", "s", "g", "a", "c", "d", "g", "a", "c", "d", "t",
      "g", "a", "c", "t", "d", "g", "a", "c", "d", "a", "d">>

CombiningMark ==
    [g |-> "\\u0300", a |-> "\\u0301", c |-> "\\u0302", t |-> "\\u0303",
     d |-> "\\u0308", r |-> "\\u030A", s |-> "\\u0327"]

MarkOf ==
    [c \in AccentedSet |->
        AccentMarks[CHOOSE i \in DOMAIN AccentedLetters : AccentedLetters[i] = c]]

\* The canonical decomposition of one character: a letter with a diacritic
\* becomes its base letter followed by the combining mark, the en quad U+2000
\* becomes the en space U+2002 and the em quad U+2001 the em space U+2003.
decompose(c) ==
    IF c \in AccentedSet THEN <<BaseOf[c], CombiningMark[MarkOf[c]]>>
    ELSE IF c = "\\u2000" THEN <<"\\u2002">>
    ELSE IF c = "\\u2001" THEN <<"\\u2003">>
    ELSE <<c>>

\* The first character of c.normalize('NFD').
baseLetter(c) == decompose(c)[1]

RECURSIVE decomposeAll(_)
decomposeAll(value) ==
    IF value = Empty THEN Empty ELSE decompose(value[1]) \o decomposeAll(Tail(value))

\* The canonical combining class: 202 for the cedilla, which is attached
\* below, 230 for the marks above, 0 for every other character.
CombiningClass(c) ==
    IF c = "\\u0327" THEN 202
    ELSE IF c \in {"\\u0300", "\\u0301", "\\u0302", "\\u0303", "\\u0308", "\\u030A"} THEN 230
    ELSE 0

\* The canonical ordering, one character at a time: a mark goes in front of
\* the marks of a higher combining class that end the text so far.
RECURSIVE placeMark(_, _)
placeMark(placed, c) ==
    IF /\ placed # Empty
       /\ CombiningClass(c) > 0
       /\ CombiningClass(placed[Len(placed)]) > CombiningClass(c)
    THEN Append(placeMark(SubSeq(placed, 1, Len(placed) - 1), c), placed[Len(placed)])
    ELSE Append(placed, c)

RECURSIVE reorderMarks(_, _)
reorderMarks(placed, rest) ==
    IF rest = Empty THEN placed ELSE reorderMarks(placeMark(placed, rest[1]), Tail(rest))

\* value.normalize('NFD')
normalizeNFD(value) == reorderMarks(Empty, decomposeAll(value))

\* U+0060
GraveAccent == "\\u0060"

\* \p{Diacritic}: in ASCII and Latin-1 the circumflex, the grave accent, the
\* diaeresis, the macron, the acute accent, the middle dot and the cedilla,
\* and the combining marks.
DiacriticSet ==
    {"^", GraveAccent, "¨", "¯", "´", "·", "¸",
     "\\u0300", "\\u0301", "\\u0302", "\\u0303", "\\u0308", "\\u030A", "\\u0327"}

\* value.normalize('NFD').replace(/\p{Diacritic}/gu, '')
stripDiacritics(value) == SelectSeq(normalizeNFD(value), LAMBDA c : c \notin DiacriticSet)

\* The same for one character: a diacritic is deleted, an accented letter
\* loses its accent.
stripDiacritic(c) == stripDiacritics(<<c>>)

\* The letters and numbers of Latin-1 that have no diacritic to lose: the
\* ordinal indicators, the micro sign, the superscript digits, the fractions
\* and the letters NFD leaves whole.
OtherLettersAndNumbers ==
    {"ª", "µ", "º", "²", "³", "¹", "¼", "½", "¾",
     "Æ", "Ð", "Ø", "Þ", "ß", "æ", "ð", "ø", "þ"}

\* \p{Letter} or \p{Number}
IsLetterOrNumber(c) ==
    \/ c \in LowerSet \/ c \in UpperSet \/ c \in DigitSet
    \/ c \in AccentedSet \/ c \in OtherLettersAndNumbers

normaliseForMatching(value) ==
    LET withoutDiacritics == toLowerCase(stripDiacritics(value))
        spaced == [i \in 1..Len(withoutDiacritics) |->
                      IF IsLetterOrNumber(withoutDiacritics[i]) \/ IsSpace(withoutDiacritics[i])
                      THEN withoutDiacritics[i] ELSE " "]
    IN  trim(collapseWhitespace(spaced))

\* candidate.split('(')[0]: the text before the first "(".
beforeParenthesis(s) ==
    LET at == {i \in 1..Len(s) : s[i] = "("}
    IN  IF at = {} THEN s
        ELSE SubSeq(s, 1, (CHOOSE i \in at : \A j \in at : i <= j) - 1)

\* Containment of whole words only.
includes_WholeWords(body, part) ==
    \E i \in 1..(Len(body) + 1) :
        /\ i + Len(part) - 1 <= Len(body)
        /\ SubSeq(body, i, i + Len(part) - 1) = part
        /\ (i = 1 \/ body[i - 1] = " ")
        /\ (i + Len(part) - 1 = Len(body) \/ body[i + Len(part)] = " ")

\* String.prototype.includes
includes(body, part) ==
    \E i \in 1..(Len(body) + 1) :
        i + Len(part) - 1 <= Len(body) /\ SubSeq(body, i, i + Len(part) - 1) = part

\* Whether detectCoveredTerms keeps a term with this text for this body.
termMatches(normalisedBody, termText) ==
    LET candidate == trim(termText)
        head == beforeParenthesis(candidate)
        normalisedCandidate == normaliseForMatching(IF head = Empty THEN candidate ELSE head)
    IN  /\ candidate # Empty
        /\ normalisedCandidate # Empty
        /\ includes(normalisedBody, normalisedCandidate)

\* detectCoveredTerms over the rows `ids` of the term table, in order: the ids
\* of the matched rows.
detectCoveredTerms(body, termTable, ids) ==
    LET normalisedBody == normaliseForMatching(body)
    IN  SelectSeq(ids, LAMBDA id : termMatches(normalisedBody, termTable[id].term))

(***************************************************************************)
(* a.localeCompare(b): the root collation on the characters of            *)
(* CollationOrder and the letters with a diacritic of Latin-1.             *)
(* Whitespace sorts before punctuation, punctuation before digits, digits  *)
(* before letters; letters compare first without case and diacritics, then *)
(* by diacritic, then by case, lower case first.                           *)
(***************************************************************************)

CollationOrder == Chars(" _-,;:!?.'\"()0123456789abcdefghijklmnopqrstuvwxyz")

CollationSet == {CollationOrder[i] : i \in 1..Len(CollationOrder)}

PrimaryWeight ==
    [c \in CollationSet |-> CHOOSE i \in 1..Len(CollationOrder) : CollationOrder[i] = c]

primaryKey(s) == [i \in 1..Len(s) |-> PrimaryWeight[LowerChar(baseLetter(s[i]))]]

\* The secondary weights of the marks: no mark first, then acute, grave,
\* circumflex, ring above, diaeresis, tilde and cedilla.
SecondaryWeight == [a |-> 1, g |-> 2, c |-> 3, r |-> 4, d |-> 5, t |-> 6, s |-> 7]

secondaryKey(s) ==
    [i \in 1..Len(s) |-> IF s[i] \in AccentedSet THEN SecondaryWeight[MarkOf[s[i]]] ELSE 0]

tertiaryKey(s) == [i \in 1..Len(s) |-> IF baseLetter(s[i]) \in UpperSet THEN 1 ELSE 0]

\* Lexicographic order on sequences of numbers: -1, 0 or 1.
RECURSIVE compareKeys(_, _)
compareKeys(a, b) ==
    IF a = <<>> /\ b = <<>> THEN 0
    ELSE IF a = <<>> THEN -1
    ELSE IF b = <<>> THEN 1
    ELSE IF a[1] < b[1] THEN -1
    ELSE IF a[1] > b[1] THEN 1
    ELSE compareKeys(Tail(a), Tail(b))

localeCompare(a, b) ==
    LET primary == compareKeys(primaryKey(a), primaryKey(b))
        secondary == compareKeys(secondaryKey(a), secondaryKey(b))
    IN  IF primary # 0 THEN primary
        ELSE IF secondary # 0 THEN secondary
        ELSE compareKeys(tertiaryKey(a), tertiaryKey(b))

\* Array.prototype.sort with localeCompare: a stable insertion sort.
RECURSIVE insertSorted(_, _)
insertSorted(sorted, x) ==
    IF sorted = <<>> THEN <<x>>
    ELSE IF localeCompare(x, sorted[Len(sorted)]) >= 0 THEN Append(sorted, x)
    ELSE Append(insertSorted(SubSeq(sorted, 1, Len(sorted) - 1), x), sorted[Len(sorted)])

RECURSIVE sortByLocale(_)
sortByLocale(list) ==
    IF list = <<>> THEN <<>>
    ELSE insertSorted(sortByLocale(SubSeq(list, 1, Len(list) - 1)), list[Len(list)])

(***************************************************************************)
(* Progress aggregator                                                     *)
(***************************************************************************)

\* Absent optional fields. Date.now() is positive and phase indices start at
\* 0, so 0 is free for an absent timestamp and -1 for an absent phase index.
Undefined == 0

NoPhase == -1

\* buildPhaseProgress without the "has at least one term" guard of isComplete.
buildPhaseProgress_NoEmptyGuard(phases, termState) ==
    [p \in 1..Len(phases) |->
        LET termsForPhase == SelectSeq(termState, LAMBDA term : term.phaseIndex = phases[p].index)
            covered == SelectSeq(termsForPhase, LAMBDA term : term.firstCoveredAt # Undefined)
            uncovered == SelectSeq(termsForPhase, LAMBDA term : term.firstCoveredAt = Undefined)
            coveredTerms == sortByLocale([k \in 1..Len(covered) |-> covered[k].term])
            remaining == sortByLocale([k \in 1..Len(uncovered) |-> uncovered[k].term])
        IN  [index |-> phases[p].index,
             name |-> phases[p].name,
             objective |-> phases[p].objective,
             totalTerms |-> Len(termsForPhase),
             completedTerms |-> Len(coveredTerms),
             remainingTerms |-> remaining,
             coveredTerms |-> coveredTerms,
             isComplete |-> Len(remaining) = 0]]

\* buildPhaseProgress over the phase rows (sorted by index) and the values of
\* termState, in the order of the Map.
buildPhaseProgress(phases, termState) ==
    [p \in 1..Len(phases) |->
        LET termsForPhase == SelectSeq(termState, LAMBDA term : term.phaseIndex = phases[p].index)
            covered == SelectSeq(termsForPhase, LAMBDA term : term.firstCoveredAt # Undefined)
            uncovered == SelectSeq(termsForPhase, LAMBDA term : term.firstCoveredAt = Undefined)
            coveredTerms == sortByLocale([k \in 1..Len(covered) |-> covered[k].term])
            remaining == sortByLocale([k \in 1..Len(uncovered) |-> uncovered[k].term])
        IN  [index |-> phases[p].index,
             name |-> phases[p].name,
             objective |-> phases[p].objective,
             totalTerms |-> Len(termsForPhase),
             completedTerms |-> Len(coveredTerms),
             remainingTerms |-> remaining,
             coveredTerms |-> coveredTerms,
             isComplete |-> Len(termsForPhase) > 0 /\ Len(remaining) = 0]]

\* buildPhaseProgressSnapshot without the "has at least one term" guard of
\* isComplete.
buildPhaseProgressSnapshot_NoEmptyGuard(phases, termState) ==
    [p \in 1..Len(phases) |->
        LET termsForPhase == SelectSeq(termState, LAMBDA term : term.phaseIndex = phases[p].index)
            uncovered == SelectSeq(termsForPhase, LAMBDA term : term.firstCoveredAt = Undefined)
            remainingTerms == sortByLocale([k \in 1..Len(uncovered) |-> uncovered[k].term])
        IN  [index |-> phases[p].index,
             name |-> phases[p].name,
             objective |-> phases[p].objective,
             totalTerms |-> Len(termsForPhase),
             completedTerms |-> Len(termsForPhase) - Len(remainingTerms),
             remainingTerms |-> remainingTerms,
             isComplete |-> Len(remainingTerms) = 0]]

\* buildPhaseProgressSnapshot of the transcript query, over the phase rows
\* (sorted by index) and the values of termState, in the order of the Map.
buildPhaseProgressSnapshot(phases, termState) ==
    [p \in 1..Len(phases) |->
        LET termsForPhase == SelectSeq(termState, LAMBDA term : term.phaseIndex = phases[p].index)
            uncovered == SelectSeq(termsForPhase, LAMBDA term : term.firstCoveredAt = Undefined)
            remainingTerms == sortByLocale([k \in 1..Len(uncovered) |-> uncovered[k].term])
        IN  [index |-> phases[p].index,
             name |-> phases[p].name,
             objective |-> phases[p].objective,
             totalTerms |-> Len(termsForPhase),
             completedTerms |-> Len(termsForPhase) - Len(remainingTerms),
             remainingTerms |-> remainingTerms,
             isComplete |-> Len(termsForPhase) > 0 /\ Len(remainingTerms) = 0]]

\* phaseProgress.flatMap((phase) => phase.remainingTerms)
RECURSIVE flatRemainingTerms(_)
flatRemainingTerms(phaseProgress) ==
    IF phaseProgress = <<>> THEN <<>>
    ELSE Head(phaseProgress).remainingTerms \o flatRemainingTerms(Tail(phaseProgress))

PgIdle ==
    /\ pgPc = "idle"
    /\ pgPhases = <<>>
    /\ pgTerms = <<>>
    /\ pgProgress = <<>>
    /\ pgSnapshot = <<>>

\* The id that refers to no row (an absent optional id argument).
NoId == 0

\* The actions (API calls) that can be in progress at the same time.
Slots == {1}

\* The actions that run at the same time where calls race.
RaceSlots == {1, 2}

\* An action that is not running, with its local variables cleared.
IdleCall ==
    [pc |-> "idle", kind |-> "none", outcome |-> "none",
     userId |-> "none", sessionId |-> "none",
     prompt |-> <<>>, followUpId |-> NoId, userMessageId |-> NoId,
     transcript |-> <<>>, assistantBody |-> <<>>,
     assistantMessageId |-> NoId, assistantCreatedAt |-> 0,
     remainingTerms |-> <<>>, newlyCoveredTerms |-> <<>>,
     userMessageFound |-> FALSE,
     suggestions |-> <<>>, batch |-> <<>>,
     plan |-> [topic |-> <<>>, phases |-> <<>>]]

TmIdle ==
    /\ tmPc = "idle"
    /\ tmBody = <<>>
    /\ tmTerms = <<>>
    /\ tmMatches = <<>>

\* The streaming route between requests. frames are the events written to the
\* response body, in order.
IdleStream ==
    [pc |-> "idle", frames |-> <<>>, aggregated |-> <<>>, chunkIndex |-> 0,
     writerClosed |-> FALSE, aborted |-> FALSE, error |-> "none",
     userId |-> "none", sessionId |-> "none", userMessageId |-> NoId]

CoreIdle ==
    /\ TmIdle
    /\ stream = [r \in RaceSlots |-> IdleStream]
    /\ users = {}
    /\ learningSessions = <<>>
    /\ sessionPhases = <<>>
    /\ sessionTerms = <<>>
    /\ sessionMessages = <<>>
    /\ sessionFollowUps = <<>>
    /\ nextFollowUpId = 1
    /\ now = 0
    /\ call = [c \in RaceSlots |-> IdleCall]

(***************************************************************************)
(* LLM gateway: callMistral                                                *)
(***************************************************************************)

RETRYABLE_STATUS == 429

MAX_RETRIES == 2

BASE_BACKOFF_MS == 400

RECURSIVE pow2(_)
pow2(n) == IF n = 0 THEN 1 ELSE 2 * pow2(n - 1)

\* What one HTTP request can come back with: a non-success status, a success
\* whose body is no JSON, a success with the first choice's content (the
\* empty text: content missing or empty), or fetch itself rejecting.
HttpStatus(status) == [k |-> "status", status |-> status]

HttpInvalidJson == [k |-> "invalidJson"]

HttpContent(content) == [k |-> "content", content |-> content]

HttpRejected == [k |-> "rejected"]

\* shouldRetry without the test of the status: any failed request is retried.
shouldRetry_AnyStatus(status, attempt) == attempt < MAX_RETRIES

\* const shouldRetry = response.status === RETRYABLE_STATUS && attempt < MAX_RETRIES
shouldRetry(status, attempt) == status = RETRYABLE_STATUS /\ attempt < MAX_RETRIES

\* The retry without the increment of attempt.
nextAttempt_Stuck(attempt) == attempt

\* attempt += 1
nextAttempt(attempt) == attempt + 1

\* const backoffMs = BASE_BACKOFF_MS * Math.pow(2, attempt)
backoffMs(attempt) == BASE_BACKOFF_MS * pow2(attempt)

\* payloadMessages: the system prompt, when given, goes first.
payloadMessages(systemPrompt, messages) ==
    IF systemPrompt THEN <<"system">> \o messages ELSE messages

Returned(content) == [k |-> "returned", content |-> content]

Thrown(code) == [k |-> "thrown", code |-> code]

NoResult == [k |-> "none"]

GwIdle ==
    /\ gwPc = "idle"
    /\ gwApiKey = FALSE
    /\ gwSystemPrompt = FALSE
    /\ gwMessages = <<>>
    /\ gwAttempt = 0
    /\ gwLog = <<>>
    /\ gwSent = <<>>
    /\ gwSleeps = <<>>
    /\ gwResult = NoResult

GwResponses ==
    { HttpStatus(429), HttpStatus(500), HttpStatus(401), HttpInvalidJson, HttpRejected,
      HttpContent(Empty), HttpContent(Chars("ok")), HttpContent(Chars(" ")) }

\* The message lists of the callers: a single user message (follow-ups, the
\* introduction), and the plan context followed by the transcript (a turn).
GwMessageLists ==
    { <<"user">>, <<"system", "user">>, <<"system", "user", "assistant", "user">> }

GwInit ==
    /\ gwPc = "start"
    /\ gwApiKey \in BOOLEAN
    /\ gwSystemPrompt \in BOOLEAN
    /\ gwMessages \in GwMessageLists
    /\ gwAttempt = 0
    /\ gwLog = <<>>
    /\ gwSent = <<>>
    /\ gwSleeps = <<>>
    /\ gwResult = NoResult
    /\ FuIdle
    /\ PgIdle
    /\ CoreIdle

\* The API key check and "let attempt = 0".
GwStart ==
    /\ gwPc = "start"
    /\ IF ~gwApiKey
       THEN /\ gwPc' = "thrown"
            /\ gwResult' = Thrown("MISTRAL_API_KEY_NOT_CONFIGURED")
       ELSE /\ gwPc' = "fetch"
            /\ gwResult' = gwResult
    /\ gwAttempt' = 0
    /\ UNCHANGED <<gwApiKey, gwSystemPrompt, gwMessages, gwLog, gwSent, gwSleeps>>
    /\ UNCHANGED <<fuVars, pgVars, coreVars, stream, tmVars>>

\* One pass of the while body: the request, and what the response leads to.
GwFetch ==
    /\ gwPc = "fetch"
    /\ \E response \in GwResponses :
        /\ gwLog' = Append(gwLog, response)
        /\ gwSent' = payloadMessages(gwSystemPrompt, gwMessages)
        /\ CASE response.k = "rejected" ->
                  /\ gwPc' = "thrown"
                  /\ gwResult' = Thrown("TypeError")
                  /\ UNCHANGED gwSleeps
             [] response.k = "status" ->
                  IF shouldRetry(response.status, gwAttempt)
                  THEN /\ gwPc' = "sleep"
                       /\ gwSleeps' = Append(gwSleeps, backoffMs(gwAttempt))
                       /\ UNCHANGED gwResult
                  ELSE /\ gwPc' = "thrown"
                       /\ gwResult' = Thrown("MISTRAL_REQUEST_FAILED")
                       /\ UNCHANGED gwSleeps
             [] response.k = "invalidJson" ->
                  /\ gwPc' = "thrown"
                  /\ gwResult' = Thrown("MISTRAL_INVALID_JSON")
                  /\ UNCHANGED gwSleeps
             [] response.k = "content" ->
                  /\ UNCHANGED gwSleeps
                  /\ IF response.content = Empty
                     THEN /\ gwPc' = "thrown"
                          /\ gwResult' = Thrown("MISTRAL_EMPTY_RESPONSE")
                     ELSE /\ gwPc' = "returned"
                          /\ gwResult' = Returned(response.content)
    /\ UNCHANGED <<gwApiKey, gwSystemPrompt, gwMessages, gwAttempt>>
    /\ UNCHANGED <<fuVars, pgVars, coreVars, stream, tmVars>>

\* The sleep is over: attempt += 1; continue, and the while test.
GwRetry ==
    /\ gwPc = "sleep"
    /\ gwAttempt' = nextAttempt(gwAttempt)
    /\ IF gwAttempt' <= MAX_RETRIES
       THEN /\ gwPc' = "fetch"
            /\ UNCHANGED gwResult
       ELSE /\ gwPc' = "thrown"
            /\ gwResult' = Thrown("MISTRAL_REQUEST_FAILED")
    /\ UNCHANGED <<gwApiKey, gwSystemPrompt, gwMessages, gwLog, gwSent, gwSleeps>>
    /\ UNCHANGED <<fuVars, pgVars, coreVars, stream, tmVars>>

GwNext == GwStart \/ GwFetch \/ GwRetry

SpecGateway == GwInit /\ [][GwNext]_vars

\* The awaited fetch and sleep complete and the continuation runs.
SpecGatewayFair == SpecGateway /\ WF_vars(GwNext)

GwDone == gwPc \in {"returned", "thrown"}

\* C10: callMistral issues at most MAX_RETRIES + 1 = 3 requests and ends; on
\* 429, 429, 200 it returns the content of the 200, and on 429, 429, 429 it
\* throws MISTRAL_REQUEST_FAILED with no fourth request.
C10_RetryBound ==
    /\ [](/\ Len(gwLog) <= MAX_RETRIES + 1
          /\ MAX_RETRIES + 1 = 3
          /\ (gwLog = <<HttpStatus(429), HttpStatus(429), HttpContent(Chars("ok"))>>
                 => gwResult = Returned(Chars("ok")))
          /\ (gwLog = <<HttpStatus(429), HttpStatus(429), HttpStatus(429)>>
                 => gwResult = Thrown("MISTRAL_REQUEST_FAILED")))
    /\ <>GwDone

\* Three 429 responses in a row have been received and the call has thrown.
C10_Witness ==
    /\ gwLog = <<HttpStatus(429), HttpStatus(429), HttpStatus(429)>>
    /\ gwSleeps = <<400, 800>>
    /\ gwPc = "thrown"

\* C11: every response but the last one received is a 429; a last response
\* with another non-success status has made the call throw
\* MISTRAL_REQUEST_FAILED, and a last success response without content has
\* made it throw MISTRAL_EMPTY_RESPONSE.
C11_OnlyRateLimitRetried ==
    /\ \A i \in 1..(Len(gwLog) - 1) : gwLog[i] = HttpStatus(RETRYABLE_STATUS)
    /\ \A i \in 1..Len(gwLog) :
        /\ (gwLog[i].k = "status" /\ gwLog[i].status # RETRYABLE_STATUS)
               => /\ i = Len(gwLog)
                  /\ gwPc = "thrown"
                  /\ gwResult = Thrown("MISTRAL_REQUEST_FAILED")
        /\ gwLog[i] = HttpContent(Empty)
               => /\ i = Len(gwLog)
                  /\ gwPc = "thrown"
                  /\ gwResult = Thrown("MISTRAL_EMPTY_RESPONSE")
                  /\ gwResult # Thrown("MISTRAL_REQUEST_FAILED")

\* A 500 after a 429: the second request was the last one.
C11_Witness ==
    /\ gwLog = <<HttpStatus(429), HttpStatus(500)>>
    /\ gwSleeps = <<400>>
    /\ gwResult = Thrown("MISTRAL_REQUEST_FAILED")


(***************************************************************************)
(* The follow-up engine on its own: refreshFollowUpSuggestions up to the   *)
(* replaceSessionFollowUps call, for every model response and every list   *)
(* of remaining terms within the bounds.                                   *)
(***************************************************************************)

MaxPrompts == 3

MaxRemaining == 3

SeqsUpTo(S, n) == UNION {[1..k -> S] : k \in 0..n}

\* Entries a model payload is built from: a question needing trimming and
\* collapsing, its case-insensitive duplicate without question mark, a blank
\* prompt, a prompt equal to a templated one, a prompt equal to a generic
\* fallback, and a prompt that is no string.
FuEntries ==
    { Entry(Str(Chars(" ç \r b?")), Str(Chars(" why\r\n"))),
      Entry(Str(Chars("Ç B")), Undef),
      Entry(Str(<<" ", LineTabulation>>), Undef),
      Entry(Str(Chars("can we explore \"t\" next")), Undef),
      Entry(Str(Chars("What should I practise next to keep making progress?")),
            Str(Chars("g"))),
      Entry(NonString, Undef) }

\* What callMistral throws: its four ConvexError codes, and the TypeError of a
\* fetch that rejects, which it does not catch.
LlmErrorCodes ==
    { "MISTRAL_API_KEY_NOT_CONFIGURED", "MISTRAL_REQUEST_FAILED",
      "MISTRAL_INVALID_JSON", "MISTRAL_EMPTY_RESPONSE", "TypeError" }

FuResponses ==
    {LlmError(code) : code \in LlmErrorCodes}
        \cup {LlmUnparsable, LlmJson(NotAnObject), LlmJson(PayloadWithoutPrompts)}
        \cup {LlmJson(Payload(entries)) : entries \in SeqsUpTo(FuEntries, MaxPrompts)}

\* Terms as createLearningSession stores them: trimmed and not blank.
FuTerms == {Chars("t"), Chars("T"), Chars("u  v")}

FuInit ==
    /\ fuPc = "start"
    /\ fuResponse \in FuResponses
    /\ fuRemaining \in SeqsUpTo(FuTerms, MaxRemaining)
    /\ fuSuggestions = <<>>
    /\ fuBatch = <<>>
    /\ GwIdle
    /\ PgIdle
    /\ CoreIdle

\* const suggestions = await generateFollowUpSuggestions(...)
FuGenerate ==
    /\ fuPc = "start"
    /\ fuSuggestions' = generateFollowUpSuggestions(fuResponse)
    /\ fuPc' = "generated"
    /\ UNCHANGED <<fuResponse, fuRemaining, fuBatch>>
    /\ UNCHANGED <<gwVars, pgVars, coreVars, stream, tmVars>>

\* const completedSuggestions = ensureFollowUpCount({..., targetCount: 3})
FuComplete ==
    /\ fuPc = "generated"
    /\ fuBatch' = ensureFollowUpCount(fuSuggestions, fuRemaining, FollowUpTarget)
    /\ fuPc' = "done"
    /\ UNCHANGED <<fuResponse, fuRemaining, fuSuggestions>>
    /\ UNCHANGED <<gwVars, pgVars, coreVars, stream, tmVars>>

FuNext == FuGenerate \/ FuComplete

SpecFollowUp == FuInit /\ [][FuNext]_vars

PromptsOf(batch) == [k \in 1..Len(batch) |-> batch[k].prompt]

PairwiseDistinct(prompts) ==
    LET lowered == [k \in 1..Len(prompts) |-> toLowerCase(prompts[k])]
    IN  \A i, j \in 1..Len(prompts) : i # j => lowered[i] # lowered[j]

\* C5: every prompt of the batch handed to the store ends with "?" and the
\* prompts of the batch are pairwise distinct when compared case-insensitively.
C5_QuestionsDistinct ==
    fuPc = "done" =>
        /\ \A k \in 1..Len(fuBatch) : endsWith(fuBatch[k].prompt, "?")
        /\ PairwiseDistinct(PromptsOf(fuBatch))

\* A payload with a duplicate and a prompt equal to a templated one, backfilled
\* from a remaining term list that holds that term.
C5_Witness ==
    /\ fuPc = "done"
    /\ fuResponse.k = "json"
    /\ Len(fuSuggestions) = 1
    /\ fuSuggestions[1].prompt = Chars("can we explore \"t\" next?")
    /\ fuRemaining = <<Chars("t"), Chars("T"), Chars("u  v")>>
    /\ Len(fuBatch) = 3

\* C6: with no usable model suggestion and at least three remaining terms the
\* batch has exactly three entries, no two of them the same.
C6_BackfillGuarantee ==
    (fuPc = "done" /\ fuSuggestions = <<>> /\ Len(fuRemaining) >= 3) =>
        /\ Len(fuBatch) = 3
        /\ PairwiseDistinct(PromptsOf(fuBatch))

\* Three remaining terms that are one term up to letter case: one templated
\* prompt and both generic fallbacks.
C6_Witness ==
    /\ fuPc = "done"
    /\ fuSuggestions = <<>>
    /\ fuRemaining = <<Chars("t"), Chars("T"), Chars("t")>>
    /\ Len(fuBatch) = 3

\* C7: when the model call fails or its response does not parse, the batch
\* has exactly three entries, pairwise distinct, whatever terms remain.
C7_CompleteBatchOnFailure ==
    (fuPc = "done" /\ fuResponse.k \in {"error", "unparsable"}) =>
        /\ Len(fuBatch) = 3
        /\ PairwiseDistinct(PromptsOf(fuBatch))

(***************************************************************************)
(* The progress aggregator on its own, for every list of phases and every  *)
(* term state within the bounds (a phase without terms included).          *)
(***************************************************************************)

PgMaxPhases == 2

PgMaxTerms == 3

PhaseRow(sessionId, index) ==
    [sessionId |-> sessionId, index |-> index,
     name |-> <<"P", Digits[index + 1]>>, objective |-> Chars("learn")]

TermRow(sessionId, phaseIndex, term, firstCoveredAt, exposureCount) ==
    [sessionId |-> sessionId, phaseIndex |-> phaseIndex, term |-> term,
     firstCoveredAt |-> firstCoveredAt, exposureCount |-> exposureCount]

PgTermTexts == {Chars("e"), Chars("E"), Chars("è"), Chars("é")}

PgTermRows ==
    {TermRow("s1", phaseIndex, term, Undefined, 0) :
        phaseIndex \in 0..(PgMaxPhases - 1), term \in PgTermTexts}
    \cup
    {TermRow("s1", phaseIndex, term, 7, 1) :
        phaseIndex \in 0..(PgMaxPhases - 1), term \in PgTermTexts}

PgInit ==
    /\ pgPc = "start"
    /\ \E n \in 0..PgMaxPhases : pgPhases = [i \in 1..n |-> PhaseRow("s1", i - 1)]
    /\ pgTerms \in SeqsUpTo(PgTermRows, PgMaxTerms)
    /\ pgProgress = <<>>
    /\ pgSnapshot = <<>>
    /\ FuIdle
    /\ GwIdle
    /\ CoreIdle

PgBuild ==
    /\ pgPc = "start"
    /\ pgProgress' = buildPhaseProgress(pgPhases, pgTerms)
    /\ pgPc' = "done"
    /\ UNCHANGED <<pgPhases, pgTerms, pgSnapshot>>
    /\ UNCHANGED <<fuVars, gwVars, coreVars, stream, tmVars>>

\* getSessionTranscript then reads the same rows and builds its snapshot.
PgSnapshot ==
    /\ pgPc = "done"
    /\ pgSnapshot' = buildPhaseProgressSnapshot(pgPhases, pgTerms)
    /\ pgPc' = "shown"
    /\ UNCHANGED <<pgPhases, pgTerms, pgProgress>>
    /\ UNCHANGED <<fuVars, gwVars, coreVars, stream, tmVars>>

PgNext == PgBuild \/ PgSnapshot

SpecProgress == PgInit /\ [][PgNext]_vars

PgRowsOf(index) == {k \in 1..Len(pgTerms) : pgTerms[k].phaseIndex = index}

PgCoveredRowsOf(index) == {k \in PgRowsOf(index) : pgTerms[k].firstCoveredAt # Undefined}

\* C3: a phase is reported complete exactly when it has a term and all its
\* terms have firstCoveredAt set; a phase without terms is not complete; and
\* totalTerms = completedTerms + the number of remainingTerms.
C3_PhaseCompleteness ==
    pgPc = "done" =>
        /\ Len(pgProgress) = Len(pgPhases)
        /\ \A p \in 1..Len(pgPhases) :
            LET rows == PgRowsOf(pgPhases[p].index)
                progress == pgProgress[p]
            IN  /\ progress.index = pgPhases[p].index
                /\ progress.isComplete <=>
                       (rows # {} /\ PgCoveredRowsOf(pgPhases[p].index) = rows)
                /\ (rows = {} => ~progress.isComplete)
                /\ progress.totalTerms = Cardinality(rows)
                /\ progress.totalTerms = progress.completedTerms + Len(progress.remainingTerms)

\* Two phases, the first complete with two covered terms, the second without
\* any term.
C3_Witness ==
    /\ pgPc = "done"
    /\ Len(pgPhases) = 2
    /\ PgRowsOf(0) # {} /\ PgCoveredRowsOf(0) = PgRowsOf(0) /\ Cardinality(PgRowsOf(0)) = 2
    /\ PgRowsOf(1) = {}
    /\ pgProgress[1].isComplete
    /\ ~pgProgress[2].isComplete

(***************************************************************************)
(* The store and the actions of a learning turn                            *)
(***************************************************************************)

\* getSessionContextForTurn: .order('desc').take(40)
TRANSCRIPT_LIMIT == 40

\* logSessionUserMessage: trimmed.length > 2000
MAX_MESSAGE_LENGTH == 2000

\* Array.from(new Set(names)): each name once, in order of first occurrence.
RECURSIVE uniqueInOrder(_)
uniqueInOrder(names) ==
    IF names = <<>> THEN <<>>
    ELSE LET front == uniqueInOrder(SubSeq(names, 1, Len(names) - 1))
             last == names[Len(names)]
         IN  IF \E k \in 1..Len(front) : front[k] = last THEN front ELSE Append(front, last)

\* The positions of the rows of `table` that belong to the session, ascending.
RowIdsOf(table, sessionId) ==
    SelectSeq([k \in 1..Len(table) |-> k], LAMBDA k : table[k].sessionId = sessionId)

RowsOf(table, sessionId) == SelectSeq(table, LAMBDA row : row.sessionId = sessionId)

\* The transcript of getSessionContextForTurn: the ids of the session's last
\* 40 messages, oldest first.
transcriptIds(messageTable, sessionId) ==
    LET all == RowIdsOf(messageTable, sessionId)
    IN  IF Len(all) <= TRANSCRIPT_LIMIT THEN all
        ELSE SubSeq(all, Len(all) - TRANSCRIPT_LIMIT + 1, Len(all))

\* The exposure count written as a flag: 1 once the term has been matched.
nextExposureCount_Flag(current) == 1

\* current.exposureCount + 1, for the row the mutation has just read.
nextExposureCount(current) == current.exposureCount + 1

\* The write to a matched term row with firstCoveredAt set to the time of every
\* match instead of the first.
patchCoveredTerm_Overwrite(current, assistantCreatedAt) ==
    [current EXCEPT !.exposureCount = @ + 1, !.firstCoveredAt = assistantCreatedAt]

\* The write of recordAssistantTurn to one matched term row.
patchCoveredTerm(current, assistantCreatedAt) ==
    [current EXCEPT !.exposureCount = nextExposureCount(current),
                    !.firstCoveredAt = IF @ = Undefined THEN assistantCreatedAt ELSE @]

\* Every matched term reported as newly covered.
isNewlyCovered_Always(current) == TRUE

\* !current.firstCoveredAt, for the row as it was read.
isNewlyCovered(current) == current.firstCoveredAt = Undefined

\* The terms matched exactly once counted as completed.
completedTermsCount_MatchedOnce(termState) ==
    Len(SelectSeq(termState, LAMBDA term : term.exposureCount = 1))

\* completedTermsCount: the term rows with firstCoveredAt set.
completedTermsCount(termState) ==
    Len(SelectSeq(termState, LAMBDA term : term.firstCoveredAt # Undefined))

\* The counters with currentPhaseIndex left at the first phase.
sessionAggregates_FirstPhase(phaseProgressAfter, termState) ==
    [completedTerms |->
         Len(SelectSeq(termState, LAMBDA term : term.firstCoveredAt # Undefined)),
     completedPhases |->
         Len(SelectSeq(phaseProgressAfter, LAMBDA phase : phase.isComplete)),
     currentPhaseIndex |-> phaseProgressAfter[1].index]

\* The counters recordAssistantTurn patches onto the session row.
sessionAggregates(phaseProgressAfter, termState) ==
    LET incomplete == {p \in 1..Len(phaseProgressAfter) : ~phaseProgressAfter[p].isComplete}
    IN  [completedTerms |-> completedTermsCount(termState),
         completedPhases |->
             Len(SelectSeq(phaseProgressAfter, LAMBDA phase : phase.isComplete)),
         currentPhaseIndex |->
             IF incomplete = {} THEN NoPhase
             ELSE phaseProgressAfter[CHOOSE p \in incomplete : \A q \in incomplete : p <= q].index]

\* Every term row of the session patched, matched or not.
patchedTerms_All(coveredIds, termIds) == {termIds[k] : k \in 1..Len(termIds)}

\* The rows the loop of recordAssistantTurn patches: those detectCoveredTerms
\* returned, each once.
patchedTerms(coveredIds, termIds) == {coveredIds[k] : k \in 1..Len(coveredIds)}

\* What recordAssistantTurn computes and writes, given the tables it reads.
recordAssistantTurn(sessionId, assistantBody, assistantCreatedAt) ==
    LET termIds == RowIdsOf(sessionTerms, sessionId)
        coveredIds == detectCoveredTerms(assistantBody, sessionTerms, termIds)
        coveredSet == patchedTerms(coveredIds, termIds)
        termsAfter == [k \in 1..Len(sessionTerms) |->
                          IF k \in coveredSet
                          THEN patchCoveredTerm(sessionTerms[k], assistantCreatedAt)
                          ELSE sessionTerms[k]]
        phaseProgressAfter ==
            buildPhaseProgress(RowsOf(sessionPhases, sessionId), RowsOf(termsAfter, sessionId))
        aggregates == sessionAggregates(phaseProgressAfter, RowsOf(termsAfter, sessionId))
    IN  [terms |-> termsAfter,
         message |-> [sessionId |-> sessionId, role |-> "assistant", body |-> assistantBody,
                      createdAt |-> assistantCreatedAt,
                      termsCovered |->
                          uniqueInOrder([k \in 1..Len(coveredIds) |-> sessionTerms[coveredIds[k]].term])],
         session |-> [learningSessions[sessionId] EXCEPT
                          !.updatedAt = assistantCreatedAt,
                          !.completedTerms = aggregates.completedTerms,
                          !.completedPhases = aggregates.completedPhases,
                          !.currentPhaseIndex = aggregates.currentPhaseIndex],
         newlyCoveredTerms |->
             LET newIds == SelectSeq(coveredIds, LAMBDA id : isNewlyCovered(sessionTerms[id]))
             IN  [k \in 1..Len(newIds) |-> sessionTerms[newIds[k]].term],
         phaseProgress |-> phaseProgressAfter]

\* ensureUser: the users table with a row for the identity, inserted when
\* there was none.
ensureUser(identity) == users \cup {identity}

\* requireUser: what it throws for the caller's identity, or "ok".
requireUser(identity) ==
    IF identity = "anonymous" THEN "NOT_AUTHENTICATED"
    ELSE IF identity \notin users THEN "USER_PROFILE_MISSING"
    ELSE "ok"

\* getSessionContextForTurn: !session || session.userId !== args.userId
sessionNotFound(sessionId, userId) ==
    \/ sessionId \notin DOMAIN learningSessions
    \/ learningSessions[sessionId].userId # userId

\* generateFollowUpSuggestions without its try/catch.
followUpGenerationThrows_NoCatch(response) ==
    \/ response.k # "json"
    \/ normaliseFollowUpSuggestions(response.payload).threw

\* Whether generateFollowUpSuggestions lets an exception of the model call or
\* of the parsing escape: never, the try/catch returns [] instead.
followUpGenerationThrows(response) == FALSE

\* The action in slot c has run to its end: it returns or throws `outcome`.
Finish(c, outcome) ==
    call' = [call EXCEPT ![c] = [call[c] EXCEPT !.pc = "done", !.outcome = outcome]]

\* The action in slot c goes on at pc with these local variables.
Goto(c, pc, locals) ==
    call' = [call EXCEPT ![c] = [locals EXCEPT !.pc = pc]]

(***************************************************************************)
(* The sessions the actions work on. s1 belongs to the caller u1 and is as *)
(* createLearningSession left it. s2 belongs to u2, who has already run    *)
(* startSessionIntroduction on it: a welcome that names no term, and the   *)
(* batch stored when the follow-up model call failed.                      *)
(***************************************************************************)

\* The number of message rows and of follow-up ids a behaviour is followed up
\* to: an action that inserts messages starts only when there is room for
\* them, a refresh only when there are ids left for its batch.
MaxMessages == 4

MaxFollowUpIds == 9

RoomForMessages(n) == Len(sessionMessages) + n <= MaxMessages

RoomForFollowUps == nextFollowUpId + FollowUpTarget - 1 <= MaxFollowUpIds

SessionRow(userId, totalPhases, totalTerms, createdAt) ==
    [userId |-> userId, currentPhaseIndex |-> 0,
     totalPhases |-> totalPhases, completedPhases |-> 0,
     totalTerms |-> totalTerms, completedTerms |-> 0,
     createdAt |-> createdAt, updatedAt |-> createdAt]

FollowUpRow(id, sessionId, generatedForMessageId, suggestion, createdAt) ==
    [id |-> id, sessionId |-> sessionId, generatedForMessageId |-> generatedForMessageId,
     prompt |-> suggestion.prompt, rationale |-> suggestion.rationale,
     createdAt |-> createdAt, usedAt |-> Undefined]

Init ==
    /\ TmIdle
    /\ stream = [r \in RaceSlots |-> IdleStream]
    /\ users = {"u1", "u2"}
    /\ learningSessions = [id \in {"s1", "s2"} |->
           IF id = "s1" THEN SessionRow("u1", 2, 3, 1)
           ELSE [SessionRow("u2", 1, 1, 2) EXCEPT !.updatedAt = 3]]
    /\ sessionPhases = <<PhaseRow("s1", 0), PhaseRow("s1", 1), PhaseRow("s2", 0)>>
    /\ sessionTerms = <<TermRow("s1", 0, Chars("t"), Undefined, 0),
                        TermRow("s1", 0, Chars("u v"), Undefined, 0),
                        TermRow("s1", 1, Chars("T (x)"), Undefined, 0),
                        TermRow("s2", 0, Chars("t"), Undefined, 0)>>
    /\ sessionMessages = <<[sessionId |-> "s2", role |-> "assistant", body |-> Chars("Welcome"),
                            createdAt |-> 3, termsCovered |-> <<>>]>>
    /\ sessionFollowUps =
           LET batch == ensureFollowUpCount(<<>>, <<Chars("t")>>, FollowUpTarget)
           IN  [k \in 1..Len(batch) |-> FollowUpRow(k, "s2", 1, batch[k], 3)]
    /\ nextFollowUpId = 4
    /\ now = 3
    /\ call = [c \in RaceSlots |-> IdleCall]
    /\ FuIdle
    /\ GwIdle
    /\ PgIdle

\* The deletion of every row of the session, used or not.
deletedByReplace_UsedToo(followUp, sessionId) == followUp.sessionId = sessionId

\* The rows replaceSessionFollowUps deletes: those the by_session index gives
\* for the session that have no usedAt.
deletedByReplace(followUp, sessionId) ==
    followUp.sessionId = sessionId /\ followUp.usedAt = Undefined

\* replaceSessionFollowUps without the deletion of the unused rows.
replaceSessionFollowUps_KeepUnused(sessionId, generatedForMessageId, suggestions, createdAt) ==
    sessionFollowUps
    \o [k \in 1..Len(suggestions) |->
           FollowUpRow(nextFollowUpId + k - 1, sessionId, generatedForMessageId,
                       suggestions[k], createdAt)]

\* The rows of the session's follow-ups that replaceSessionFollowUps keeps,
\* followed by the rows it inserts.
replaceSessionFollowUps(sessionId, generatedForMessageId, suggestions, createdAt) ==
    SelectSeq(sessionFollowUps, LAMBDA followUp : ~deletedByReplace(followUp, sessionId))
    \o [k \in 1..Len(suggestions) |->
           FollowUpRow(nextFollowUpId + k - 1, sessionId, generatedForMessageId,
                       suggestions[k], createdAt)]

\* Who calls: nobody signed in, an identity without a users row, and u1.
Callers == {"anonymous", "unregistered", "u1"}

\* The arguments callers pass. "s0" is the id of a session that does not
\* exist; LongPrompt is one character over the limit.
SessionArgs == {"s1", "s2", "s0"}

LongPrompt == SubSeq([i \in 1..(MAX_MESSAGE_LENGTH + 1) |-> "x"], 1, MAX_MESSAGE_LENGTH + 1)

PromptArgs == {Chars(" hi "), <<LineTabulation, " ">>, LongPrompt}

\* Replies of the chat model: one naming t (and so T (x)) twice, one naming
\* u v, one blank.
ChatContents == {Chars(" T, t! "), Chars("u-v"), <<LineTabulation>>}

ChatResponses ==
    {Thrown(code) : code \in LlmErrorCodes} \cup {Returned(content) : content \in ChatContents}

\* Outcomes of the follow-up model call: every failure, and a payload with one
\* usable question.
TurnFollowUpResponses ==
    {LlmError(code) : code \in LlmErrorCodes}
        \cup {LlmUnparsable, LlmJson(NotAnObject), LlmJson(PayloadWithoutPrompts),
              LlmJson(Payload(<<Entry(Str(Chars(" why  t")), Str(Chars("r")))>>))}

\* The follow-up ids a caller can pass: none, one that does not exist, and
\* per session its oldest unused and its oldest used suggestion.
FollowUpArgs ==
    LET oldest(rows) == {k \in rows : \A j \in rows : k <= j}
        unused(sessionId) == {k \in 1..Len(sessionFollowUps) :
            sessionFollowUps[k].sessionId = sessionId /\ sessionFollowUps[k].usedAt = Undefined}
        used(sessionId) == {k \in 1..Len(sessionFollowUps) :
            sessionFollowUps[k].sessionId = sessionId /\ sessionFollowUps[k].usedAt # Undefined}
        chosen == UNION {oldest(unused(sessionId)) \cup oldest(used(sessionId)) :
                            sessionId \in DOMAIN learningSessions}
    IN  {NoId, 99} \cup {sessionFollowUps[k].id : k \in chosen}

\* The message ids a caller can pass: one that exists, one that does not.
MessageArgs == (1..Len(sessionMessages)) \cup {99}

(***************************************************************************)
(* The actions. Each public action runs as a chain of steps: its own code, *)
(* and one step per query, mutation or model call it awaits. A mutation    *)
(* that throws writes nothing. Date.now() returns a larger value on every  *)
(* call.                                                                   *)
(***************************************************************************)

\* requireUser and the first lines of prepareSessionTurnForUser;
\* trimmedPrompt is cleanString(params.prompt).
BeginPrepare(c, kind, identity, sessionId, trimmedPrompt, followUpId) ==
    /\ call[c].pc = "idle"
    /\ RoomForMessages(IF kind = "runSessionTurn" THEN 2 ELSE 1)
    /\ LET started == [IdleCall EXCEPT !.kind = kind]
       IN  IF requireUser(identity) # "ok"
           THEN call' = [call EXCEPT ![c] =
                    [started EXCEPT !.pc = "done", !.outcome = requireUser(identity)]]
           ELSE IF trimmedPrompt = Empty
           THEN call' = [call EXCEPT ![c] =
                    [started EXCEPT !.pc = "done", !.outcome = "EMPTY_MESSAGE",
                                    !.userId = identity, !.sessionId = sessionId]]
           ELSE Goto(c, "context", [started EXCEPT !.userId = identity,
                                                   !.sessionId = sessionId,
                                                   !.prompt = trimmedPrompt,
                                                   !.followUpId = followUpId])
    /\ UNCHANGED storeVars
    /\ UNCHANGED <<fuVars, gwVars, pgVars, stream, tmVars>>

\* runSessionTurn is called.
StartRunSessionTurn(c) ==
    \E prompt \in PromptArgs :
        LET trimmedPrompt == cleanString(Str(prompt))
        IN  \E identity \in Callers, sessionId \in SessionArgs, followUpId \in FollowUpArgs :
                BeginPrepare(c, "runSessionTurn", identity, sessionId, trimmedPrompt, followUpId)

\* prepareSessionTurn is called.
StartPrepareSessionTurn(c) ==
    \E prompt \in PromptArgs :
        LET trimmedPrompt == cleanString(Str(prompt))
        IN  \E identity \in Callers, sessionId \in SessionArgs, followUpId \in FollowUpArgs :
                BeginPrepare(c, "prepareSessionTurn", identity, sessionId, trimmedPrompt, followUpId)

\* prepareSessionTurnForUser: the getSessionContextForTurn query.
PrepareContext(c) ==
    /\ call[c].pc = "context"
    /\ call[c].kind \in {"runSessionTurn", "prepareSessionTurn"}
    /\ IF sessionNotFound(call[c].sessionId, call[c].userId)
       THEN Finish(c, "SESSION_NOT_FOUND")
       ELSE Goto(c, "log", [call[c] EXCEPT
                !.transcript = transcriptIds(sessionMessages, call[c].sessionId)])
    /\ UNCHANGED storeVars
    /\ UNCHANGED <<fuVars, gwVars, pgVars, stream, tmVars>>

\* The lookup of the follow-up with the session of the row left unchecked.
followUpFound_AnySession(followUpId, sessionId) ==
    \E k \in 1..Len(sessionFollowUps) : sessionFollowUps[k].id = followUpId

\* ctx.db.get(args.followUpId) finds a row, and it is of this session.
followUpFound(followUpId, sessionId) ==
    \E k \in 1..Len(sessionFollowUps) :
        /\ sessionFollowUps[k].id = followUpId
        /\ sessionFollowUps[k].sessionId = sessionId

\* What logSessionUserMessage throws ("ok" when it returns).
logSessionUserMessageThrows(sessionId, userId, body, followUpId) ==
    LET trimmed == cleanString(Str(body))
    IN  IF sessionNotFound(sessionId, userId) THEN "SESSION_NOT_FOUND"
        ELSE IF trimmed = Empty THEN "EMPTY_MESSAGE"
        ELSE IF Len(trimmed) > MAX_MESSAGE_LENGTH THEN "MESSAGE_TOO_LONG"
        ELSE IF followUpId # NoId /\ ~followUpFound(followUpId, sessionId)
             THEN "FOLLOW_UP_NOT_FOUND"
        ELSE "ok"

\* The mutation with the writes made before a throw left in place.
logSessionUserMessage_InsertKept(sessionId, userId, body, followUpId, createdAt) ==
    LET threw == logSessionUserMessageThrows(sessionId, userId, body, followUpId)
        inserted == threw \in {"ok", "FOLLOW_UP_NOT_FOUND"}
    IN  [threw |-> threw,
         messages |->
             IF inserted
             THEN Append(sessionMessages,
                         [sessionId |-> sessionId, role |-> "user",
                          body |-> cleanString(Str(body)), createdAt |-> createdAt])
             ELSE sessionMessages,
         followUps |->
             [k \in 1..Len(sessionFollowUps) |->
                 IF /\ threw = "ok"
                    /\ sessionFollowUps[k].id = followUpId
                 THEN [sessionFollowUps[k] EXCEPT !.usedAt = createdAt]
                 ELSE sessionFollowUps[k]]]

\* The tables as the logSessionUserMessage mutation leaves them: the user
\* message inserted and the follow-up patched when it returns, nothing written
\* when it throws.
logSessionUserMessage(sessionId, userId, body, followUpId, createdAt) ==
    LET threw == logSessionUserMessageThrows(sessionId, userId, body, followUpId)
    IN  [threw |-> threw,
         messages |->
             IF threw = "ok"
             THEN Append(sessionMessages,
                         [sessionId |-> sessionId, role |-> "user",
                          body |-> cleanString(Str(body)), createdAt |-> createdAt])
             ELSE sessionMessages,
         followUps |->
             [k \in 1..Len(sessionFollowUps) |->
                 IF /\ threw = "ok"
                    /\ sessionFollowUps[k].id = followUpId
                 THEN [sessionFollowUps[k] EXCEPT !.usedAt = createdAt]
                 ELSE sessionFollowUps[k]]]

\* prepareSessionTurnForUser: the logSessionUserMessage mutation.
LogSessionUserMessage(c) ==
    /\ call[c].pc = "log"
    /\ LET logged == logSessionUserMessage(call[c].sessionId, call[c].userId, call[c].prompt,
                                           call[c].followUpId, now + 1)
       IN  /\ sessionMessages' = logged.messages
           /\ sessionFollowUps' = logged.followUps
           /\ IF logged.threw # "ok"
              THEN /\ Finish(c, logged.threw)
                   /\ UNCHANGED now
              ELSE /\ now' = now + 1
                   /\ IF call[c].kind = "prepareSessionTurn"
                      THEN Goto(c, "done", [call[c] EXCEPT
                               !.outcome = "prepared",
                               !.userMessageId = Len(logged.messages)])
                      ELSE Goto(c, "llm", [call[c] EXCEPT !.userMessageId = Len(logged.messages)])
    /\ UNCHANGED <<users, learningSessions, sessionPhases, sessionTerms, nextFollowUpId>>
    /\ UNCHANGED <<fuVars, gwVars, pgVars, stream, tmVars>>

\* runSessionTurn: callMistral, then the first lines of
\* finalizeSessionTurnForUser.
TurnCallMistral(c) ==
    /\ call[c].pc = "llm"
    /\ call[c].kind = "runSessionTurn"
    /\ \E response \in ChatResponses :
        IF response.k = "thrown"
        THEN Finish(c, response.code)
        ELSE LET assistantBody == cleanString(Str(response.content))
             IN  IF assistantBody = Empty
                 THEN Finish(c, "EMPTY_MESSAGE")
                 ELSE Goto(c, "record", [call[c] EXCEPT !.assistantBody = assistantBody])
    /\ UNCHANGED storeVars
    /\ UNCHANGED <<fuVars, gwVars, pgVars, stream, tmVars>>

\* requireUser and the first lines of finalizeSessionTurnForUser;
\* assistantBody is cleanString(params.assistantBody).
BeginFinalize(c, identity, sessionId, userMessageId, assistantBody) ==
    /\ call[c].pc = "idle"
    /\ RoomForMessages(1)
    /\ LET started == [IdleCall EXCEPT !.kind = "finalizeSessionTurn"]
       IN  IF requireUser(identity) # "ok"
           THEN call' = [call EXCEPT ![c] =
                    [started EXCEPT !.pc = "done", !.outcome = requireUser(identity)]]
           ELSE IF assistantBody = Empty
           THEN call' = [call EXCEPT ![c] =
                    [started EXCEPT !.pc = "done", !.outcome = "EMPTY_MESSAGE"]]
           ELSE Goto(c, "record", [started EXCEPT !.userId = identity,
                                                  !.sessionId = sessionId,
                                                  !.userMessageId = userMessageId,
                                                  !.assistantBody = assistantBody])
    /\ UNCHANGED storeVars
    /\ UNCHANGED <<fuVars, gwVars, pgVars, stream, tmVars>>

\* finalizeSessionTurn is called.
StartFinalizeSessionTurn(c) ==
    \E content \in ChatContents :
        LET assistantBody == cleanString(Str(content))
        IN  \E identity \in Callers, sessionId \in SessionArgs, userMessageId \in MessageArgs :
                BeginFinalize(c, identity, sessionId, userMessageId, assistantBody)

\* The recordAssistantTurn mutation, called by finalizeSessionTurnForUser and
\* by startSessionIntroduction.
RecordAssistantTurn(c) ==
    /\ call[c].pc = "record"
    /\ LET sessionId == call[c].sessionId
           assistantBody == cleanString(Str(call[c].assistantBody))
           assistantCreatedAt == now + 1
           recorded == recordAssistantTurn(sessionId, assistantBody, assistantCreatedAt)
       IN  IF sessionId \notin DOMAIN learningSessions
           THEN /\ Finish(c, "SESSION_NOT_FOUND")
                /\ UNCHANGED storeVars
           ELSE IF assistantBody = Empty
           THEN /\ Finish(c, "EMPTY_MESSAGE")
                /\ UNCHANGED storeVars
           ELSE /\ sessionTerms' = recorded.terms
                /\ sessionMessages' = Append(sessionMessages, recorded.message)
                /\ learningSessions' = [learningSessions EXCEPT ![sessionId] = recorded.session]
                /\ now' = assistantCreatedAt
                /\ Goto(c, IF call[c].kind = "startSessionIntroduction"
                           THEN "followUps" ELSE "contextAfter",
                        [call[c] EXCEPT
                            !.assistantBody = assistantBody,
                            !.assistantMessageId = Len(sessionMessages) + 1,
                            !.assistantCreatedAt = assistantCreatedAt,
                            !.newlyCoveredTerms = recorded.newlyCoveredTerms,
                            !.remainingTerms = flatRemainingTerms(recorded.phaseProgress)])
                /\ UNCHANGED <<users, sessionPhases, sessionFollowUps, nextFollowUpId>>
    /\ UNCHANGED <<fuVars, gwVars, pgVars, stream, tmVars>>

\* finalizeSessionTurnForUser: the getSessionContextForTurn query after the
\* mutation, and the lookup of the user message in its transcript.
FinalizeContext(c) ==
    /\ call[c].pc = "contextAfter"
    /\ IF sessionNotFound(call[c].sessionId, call[c].userId)
       THEN Finish(c, "SESSION_NOT_FOUND")
       ELSE LET transcript == transcriptIds(sessionMessages, call[c].sessionId)
            IN  Goto(c, "followUps", [call[c] EXCEPT
                    !.transcript = transcript,
                    !.userMessageFound =
                        \E k \in 1..Len(transcript) :
                            /\ transcript[k] = call[c].userMessageId
                            /\ sessionMessages[transcript[k]].role = "user"])
    /\ UNCHANGED storeVars
    /\ UNCHANGED <<fuVars, gwVars, pgVars, stream, tmVars>>

\* refreshFollowUpSuggestions up to the mutation: the model call inside
\* generateFollowUpSuggestions and ensureFollowUpCount.
GenerateFollowUps(c) ==
    /\ call[c].pc = "followUps"
    /\ \E response \in TurnFollowUpResponses :
        IF followUpGenerationThrows(response)
        THEN Finish(c, "FOLLOW_UP_GENERATION_FAILED")
        ELSE Goto(c, "replace", [call[c] EXCEPT
                !.suggestions = generateFollowUpSuggestions(response),
                !.batch = ensureFollowUpCount(generateFollowUpSuggestions(response),
                                              call[c].remainingTerms, FollowUpTarget)])
    /\ UNCHANGED storeVars
    /\ UNCHANGED <<fuVars, gwVars, pgVars, stream, tmVars>>

\* The replaceSessionFollowUps mutation, and what the action returns or throws
\* after it.
ReplaceSessionFollowUps(c) ==
    /\ call[c].pc = "replace"
    /\ IF call[c].sessionId \notin DOMAIN learningSessions
       THEN /\ Finish(c, "SESSION_NOT_FOUND")
            /\ UNCHANGED storeVars
       ELSE /\ sessionFollowUps' =
                   replaceSessionFollowUps(call[c].sessionId, call[c].assistantMessageId,
                                           call[c].batch, call[c].assistantCreatedAt)
            /\ nextFollowUpId' = nextFollowUpId + Len(call[c].batch)
            /\ Finish(c, CASE call[c].kind = "refreshSessionFollowUps" -> "refreshed"
                           [] call[c].kind = "startSessionIntroduction" -> "initialized"
                           [] OTHER -> IF call[c].userMessageFound
                                       THEN "ok" ELSE "USER_MESSAGE_NOT_FOUND")
            /\ UNCHANGED <<users, learningSessions, sessionPhases, sessionTerms, sessionMessages,
                           now>>
    /\ UNCHANGED <<fuVars, gwVars, pgVars, stream, tmVars>>

\* startSessionIntroduction is called: the identity and users-row checks.
StartSessionIntroduction(c) ==
    /\ call[c].pc = "idle"
    /\ RoomForMessages(1)
    /\ \E identity \in Callers, sessionId \in SessionArgs :
        LET started == [IdleCall EXCEPT !.kind = "startSessionIntroduction"]
        IN  IF requireUser(identity) # "ok"
            THEN call' = [call EXCEPT ![c] =
                     [started EXCEPT !.pc = "done", !.outcome = requireUser(identity)]]
            ELSE Goto(c, "context", [started EXCEPT !.userId = identity,
                                                    !.sessionId = sessionId])
    /\ UNCHANGED storeVars
    /\ UNCHANGED <<fuVars, gwVars, pgVars, stream, tmVars>>

\* The step without the check of the transcript.
IntroductionContext_NoCheck(c) ==
    /\ call[c].pc = "context"
    /\ call[c].kind = "startSessionIntroduction"
    /\ IF sessionNotFound(call[c].sessionId, call[c].userId)
       THEN Finish(c, "SESSION_NOT_FOUND")
       ELSE Goto(c, "llm", [call[c] EXCEPT
                !.transcript = transcriptIds(sessionMessages, call[c].sessionId)])
    /\ UNCHANGED storeVars
    /\ UNCHANGED <<fuVars, gwVars, pgVars, stream, tmVars>>

\* startSessionIntroduction: the getSessionContextForTurn query and the
\* check of the transcript.
IntroductionContext(c) ==
    /\ call[c].pc = "context"
    /\ call[c].kind = "startSessionIntroduction"
    /\ IF sessionNotFound(call[c].sessionId, call[c].userId)
       THEN Finish(c, "SESSION_NOT_FOUND")
       ELSE LET transcript == transcriptIds(sessionMessages, call[c].sessionId)
            IN  IF Len(transcript) > 0
                THEN Finish(c, "alreadyInitialized")
                ELSE Goto(c, "llm", [call[c] EXCEPT !.transcript = transcript])
    /\ UNCHANGED storeVars
    /\ UNCHANGED <<fuVars, gwVars, pgVars, stream, tmVars>>

\* startSessionIntroduction: callMistral and content.trim().
IntroductionCallMistral(c) ==
    /\ call[c].pc = "llm"
    /\ call[c].kind = "startSessionIntroduction"
    /\ \E response \in ChatResponses :
        IF response.k = "thrown"
        THEN Finish(c, response.code)
        ELSE Goto(c, "record", [call[c] EXCEPT !.assistantBody = trim(response.content)])
    /\ UNCHANGED storeVars
    /\ UNCHANGED <<fuVars, gwVars, pgVars, stream, tmVars>>

\* refreshSessionFollowUps is called: the identity and users-row checks.
StartRefreshSessionFollowUps(c) ==
    /\ call[c].pc = "idle"
    /\ RoomForFollowUps
    /\ \E identity \in Callers, sessionId \in SessionArgs,
          assistantMessageId \in {NoId} \cup MessageArgs :
        LET started == [IdleCall EXCEPT !.kind = "refreshSessionFollowUps"]
        IN  IF requireUser(identity) # "ok"
            THEN call' = [call EXCEPT ![c] =
                     [started EXCEPT !.pc = "done", !.outcome = requireUser(identity)]]
            ELSE Goto(c, "context", [started EXCEPT !.userId = identity,
                                                    !.sessionId = sessionId,
                                                    !.assistantMessageId = assistantMessageId])
    /\ UNCHANGED storeVars
    /\ UNCHANGED <<fuVars, gwVars, pgVars, stream, tmVars>>

\* refreshSessionFollowUps: the getSessionContextForTurn query and the choice
\* of the assistant message the batch is generated for.
RefreshContext(c) ==
    /\ call[c].pc = "context"
    /\ call[c].kind = "refreshSessionFollowUps"
    /\ IF sessionNotFound(call[c].sessionId, call[c].userId)
       THEN Finish(c, "SESSION_NOT_FOUND")
       ELSE LET sessionId == call[c].sessionId
                transcript == transcriptIds(sessionMessages, sessionId)
                isAssistant(k) == sessionMessages[transcript[k]].role = "assistant"
                named == {k \in 1..Len(transcript) :
                             transcript[k] = call[c].assistantMessageId /\ isAssistant(k)}
                assistants == {k \in 1..Len(transcript) : isAssistant(k)}
                candidates == IF call[c].assistantMessageId # NoId /\ named # {}
                              THEN named ELSE assistants
                targetIndex == IF named # {} /\ call[c].assistantMessageId # NoId
                               THEN CHOOSE k \in named : \A j \in named : k <= j
                               ELSE CHOOSE k \in assistants : \A j \in assistants : k >= j
                phaseProgress == buildPhaseProgress(RowsOf(sessionPhases, sessionId),
                                                    RowsOf(sessionTerms, sessionId))
            IN  IF Len(transcript) = 0 THEN Finish(c, "NO_MESSAGES")
                ELSE IF candidates = {} THEN Finish(c, "NO_ASSISTANT_MESSAGE")
                ELSE Goto(c, "followUps", [call[c] EXCEPT
                        !.transcript = SubSeq(transcript, 1, targetIndex),
                        !.assistantMessageId = transcript[targetIndex],
                        !.assistantCreatedAt = sessionMessages[transcript[targetIndex]].createdAt,
                        !.remainingTerms = flatRemainingTerms(phaseProgress)])
    /\ UNCHANGED storeVars
    /\ UNCHANGED <<fuVars, gwVars, pgVars, stream, tmVars>>

\* The syncUserProfile mutation: a signed-in caller without a users row gets
\* one (sendMessage registers its caller the same way, through ensureUser).
SyncUserProfile(c) ==
    /\ call[c].pc = "idle"
    /\ \E identity \in Callers :
        LET started == [IdleCall EXCEPT !.pc = "done", !.kind = "syncUserProfile"]
        IN  IF identity = "anonymous"
            THEN /\ call' = [call EXCEPT ![c] = [started EXCEPT !.outcome = "NOT_AUTHENTICATED"]]
                 /\ UNCHANGED users
            ELSE /\ call' = [call EXCEPT ![c] =
                         [started EXCEPT !.userId = identity, !.outcome = "synced"]]
                 /\ users' = ensureUser(identity)
    /\ UNCHANGED <<learningSessions, sessionPhases, sessionTerms, sessionMessages,
                   sessionFollowUps, nextFollowUpId, now>>
    /\ UNCHANGED <<fuVars, gwVars, pgVars, stream, tmVars>>

\* The caller has the outcome; the slot is free for the next action.
Return(c) ==
    /\ call[c].pc = "done"
    /\ call' = [call EXCEPT ![c] = IdleCall]
    /\ UNCHANGED storeVars
    /\ UNCHANGED <<fuVars, gwVars, pgVars, stream, tmVars>>

Next ==
    \E c \in Slots :
        \/ StartRunSessionTurn(c)
        \/ StartPrepareSessionTurn(c)
        \/ PrepareContext(c)
        \/ LogSessionUserMessage(c)
        \/ TurnCallMistral(c)
        \/ StartFinalizeSessionTurn(c)
        \/ RecordAssistantTurn(c)
        \/ FinalizeContext(c)
        \/ GenerateFollowUps(c)
        \/ ReplaceSessionFollowUps(c)
        \/ StartSessionIntroduction(c)
        \/ IntroductionContext(c)
        \/ IntroductionCallMistral(c)
        \/ StartRefreshSessionFollowUps(c)
        \/ RefreshContext(c)
        \/ SyncUserProfile(c)
        \/ Return(c)

Spec == Init /\ [][Next]_vars

(***************************************************************************)
(* Properties of the turn pipeline                                         *)
(***************************************************************************)

\* C1: no step changes or clears a firstCoveredAt that is set, and no step
\* lowers an exposureCount; the term rows stay the same rows.
C1_MonotonicCoverage ==
    [][/\ Len(sessionTerms') = Len(sessionTerms)
       /\ \A k \in 1..Len(sessionTerms) :
            /\ sessionTerms[k].firstCoveredAt # Undefined
                   => sessionTerms'[k].firstCoveredAt = sessionTerms[k].firstCoveredAt
            /\ sessionTerms'[k].exposureCount >= sessionTerms[k].exposureCount]_vars

\* A term matched by two assistant messages: counted twice, and still carrying
\* the time of the first of them.
C1_Witness ==
    \E k \in 1..Len(sessionTerms) :
        /\ sessionTerms[k].exposureCount = 2
        /\ \E m \in 1..Len(sessionMessages) :
            /\ sessionMessages[m].sessionId = sessionTerms[k].sessionId
            /\ sessionMessages[m].role = "assistant"
            /\ sessionMessages[m].termsCovered # <<>>
            /\ sessionMessages[m].createdAt > sessionTerms[k].firstCoveredAt
            /\ sessionTerms[k].firstCoveredAt # Undefined

TermsOfSession(sessionId) ==
    {k \in 1..Len(sessionTerms) : sessionTerms[k].sessionId = sessionId}

CoveredTermsOfSession(sessionId) ==
    {k \in TermsOfSession(sessionId) : sessionTerms[k].firstCoveredAt # Undefined}

CompletePhasesOfSession(sessionId) ==
    {p \in 1..Len(sessionPhases) :
        /\ sessionPhases[p].sessionId = sessionId
        /\ \E k \in TermsOfSession(sessionId) : sessionTerms[k].phaseIndex = sessionPhases[p].index
        /\ \A k \in TermsOfSession(sessionId) :
               sessionTerms[k].phaseIndex = sessionPhases[p].index
                   => sessionTerms[k].firstCoveredAt # Undefined}

IncompletePhaseIndexes(sessionId) ==
    {sessionPhases[p].index :
        p \in {q \in 1..Len(sessionPhases) : sessionPhases[q].sessionId = sessionId}
                 \ CompletePhasesOfSession(sessionId)}

\* C2: the counters stored on every session row equal what the term rows give:
\* completedTerms the number of covered terms, completedPhases the number of
\* complete phases, currentPhaseIndex the lowest index of an incomplete phase,
\* absent when there is none.
C2_AggregateConsistency ==
    \A sessionId \in DOMAIN learningSessions :
        LET session == learningSessions[sessionId]
            incomplete == IncompletePhaseIndexes(sessionId)
        IN  /\ session.completedTerms = Cardinality(CoveredTermsOfSession(sessionId))
            /\ session.completedPhases = Cardinality(CompletePhasesOfSession(sessionId))
            /\ session.totalTerms = Cardinality(TermsOfSession(sessionId))
            /\ IF incomplete = {}
               THEN session.currentPhaseIndex = NoPhase
               ELSE /\ session.currentPhaseIndex \in incomplete
                    /\ \A index \in incomplete : session.currentPhaseIndex <= index

\* The recorded turn that completed the last phase of s1: no current phase,
\* both phases complete, all three terms covered.
C2_Witness ==
    /\ learningSessions["s1"].currentPhaseIndex = NoPhase
    /\ learningSessions["s1"].completedPhases = 2
    /\ learningSessions["s1"].completedTerms = 3
    /\ \E m \in 1..Len(sessionMessages) :
        /\ sessionMessages[m].sessionId = "s1"
        /\ sessionMessages[m].role = "assistant"
        /\ sessionMessages[m].createdAt = learningSessions["s1"].updatedAt

UnusedFollowUps(table, sessionId) ==
    SelectSeq(table, LAMBDA followUp :
        followUp.sessionId = sessionId /\ followUp.usedAt = Undefined)

UsedFollowUps(table, sessionId) ==
    SelectSeq(table, LAMBDA followUp :
        followUp.sessionId = sessionId /\ followUp.usedAt # Undefined)

\* C4: the replaceSessionFollowUps step leaves the session with at most three
\* unused suggestions, which are the batch it was given, in order, all generated
\* for the message it was given; the used suggestions stay.
C4_BatchAfterRefresh ==
    [][\A c \in Slots :
        call[c].pc = "replace" =>
            LET unused == UnusedFollowUps(sessionFollowUps', call[c].sessionId)
            IN  /\ Len(unused) <= 3
                /\ Len(unused) = Len(call[c].batch)
                /\ \A k \in 1..Len(unused) :
                    /\ unused[k].prompt = call[c].batch[k].prompt
                    /\ unused[k].rationale = call[c].batch[k].rationale
                    /\ unused[k].generatedForMessageId = call[c].assistantMessageId
                    /\ unused[k].id >= nextFollowUpId
                /\ UsedFollowUps(sessionFollowUps', call[c].sessionId)
                       = UsedFollowUps(sessionFollowUps, call[c].sessionId)]_vars

\* A refresh has run on a session that had a used suggestion and an earlier
\* batch: the unused suggestions are the new batch only.
C4_Witness ==
    \E c \in Slots :
        /\ call[c].pc = "done"
        /\ call[c].kind = "runSessionTurn"
        /\ call[c].outcome = "ok"
        /\ Len(call[c].batch) = 3
        /\ Len(UsedFollowUps(sessionFollowUps, call[c].sessionId)) = 1
        /\ Len(UnusedFollowUps(sessionFollowUps, call[c].sessionId)) = 3

\* The follow-up model call gave nothing usable: it failed or its content gave
\* no suggestion.
FollowUpCallFailed(c) ==
    /\ call[c].kind \in {"runSessionTurn", "finalizeSessionTurn"}
    /\ call[c].suggestions = <<>>

\* C8: the follow-up generation never ends the action, whatever the model
\* call gives, and writes nothing; and when it gave nothing usable, the
\* mutation that follows stores a batch, leaves messages, terms and sessions
\* as recordAssistantTurn wrote them, and the action returns (for a user
\* message that is in the transcript).
C8_FollowUpNeverFailsTurn ==
    [][\A c \in Slots :
        /\ call[c].pc = "followUps"
               => /\ call'[c].pc = "replace"
                  /\ call'[c].batch # <<>>
                  /\ UNCHANGED storeVars
        /\ (call[c].pc = "replace" /\ FollowUpCallFailed(c))
               => /\ call'[c].pc = "done"
                  /\ call[c].userMessageFound => call'[c].outcome = "ok"
                  /\ UnusedFollowUps(sessionFollowUps', call[c].sessionId) # <<>>
                  /\ UNCHANGED <<sessionMessages, sessionTerms, learningSessions>>
                  /\ sessionMessages[call[c].assistantMessageId].body = call[c].assistantBody]_vars

\* A turn has returned although its follow-up model call gave nothing.
C8_Witness ==
    \E c \in Slots :
        /\ call[c].pc = "done"
        /\ FollowUpCallFailed(c)
        /\ call[c].outcome = "ok"
        /\ call[c].batch # <<>>
        /\ sessionMessages[call[c].assistantMessageId].body = call[c].assistantBody
        /\ sessionMessages[call[c].assistantMessageId].role = "assistant"

SessionHasMessages(sessionId) ==
    \E m \in 1..Len(sessionMessages) : sessionMessages[m].sessionId = sessionId

\* C9: a startSessionIntroduction call that reaches its query on a session with
\* a message ends there without a write: with alreadyInitialized for the
\* owner, with SESSION_NOT_FOUND for anyone else; and the model call, the
\* mutations and the follow-up stage of an introduction only ever run for a
\* transcript that was empty.
C9_IdempotentIntroduction ==
    /\ [](\A c \in Slots :
            (call[c].kind = "startSessionIntroduction"
                 /\ call[c].pc \in {"llm", "record", "followUps", "replace"})
                => call[c].transcript = <<>>)
    /\ [][\A c \in Slots :
            (/\ call[c].kind = "startSessionIntroduction"
             /\ call[c].pc = "context"
             /\ SessionHasMessages(call[c].sessionId))
                => /\ call'[c].pc = "done"
                   /\ call'[c].outcome =
                          IF learningSessions[call[c].sessionId].userId = call[c].userId
                          THEN "alreadyInitialized" ELSE "SESSION_NOT_FOUND"
                   /\ UNCHANGED storeVars]_vars

\* A second introduction on s1 after the first one stored its welcome.
C9_Witness ==
    \E c \in Slots :
        /\ call[c].pc = "done"
        /\ call[c].kind = "startSessionIntroduction"
        /\ call[c].outcome = "alreadyInitialized"
        /\ call[c].sessionId = "s1"
        /\ \E m \in 1..Len(sessionMessages) :
            sessionMessages[m].sessionId = "s1" /\ sessionMessages[m].role = "assistant"

PrepareKinds == {"runSessionTurn", "prepareSessionTurn"}

PrepareErrors ==
    {"NOT_AUTHENTICATED", "USER_PROFILE_MISSING", "EMPTY_MESSAGE", "MESSAGE_TOO_LONG",
     "SESSION_NOT_FOUND", "FOLLOW_UP_NOT_FOUND"}

\* The step is one of prepare (the checks at the start, the query, the
\* mutation) and ends the action with one of the prepare errors.
PrepareFails(c) ==
    /\ call[c].pc \in {"idle", "context", "log"}
    /\ call'[c].pc = "done"
    /\ call'[c].kind \in PrepareKinds
    /\ call'[c].outcome \in PrepareErrors

\* C12: a prepare step that fails with one of the six errors leaves every
\* table as it was, and so do the steps of the prepare before it (the checks
\* and the query write nothing): no user message is kept and no follow-up is
\* marked used.
C12_FailedPrepareWritesNothing ==
    [][\A c \in Slots :
        /\ PrepareFails(c)
               => UNCHANGED <<learningSessions, sessionPhases, sessionTerms,
                              sessionMessages, sessionFollowUps>>
        /\ (call'[c].kind \in PrepareKinds /\ call[c].pc \in {"idle", "context"})
               => UNCHANGED <<learningSessions, sessionPhases, sessionTerms,
                              sessionMessages, sessionFollowUps>>]_vars

\* A prepare on s1 has failed with FOLLOW_UP_NOT_FOUND for a suggestion of s2:
\* s1 has no message and the suggestion is still unused.
C12_Witness ==
    \E c \in Slots :
        /\ call[c].pc = "done"
        /\ call[c].kind = "prepareSessionTurn"
        /\ call[c].outcome = "FOLLOW_UP_NOT_FOUND"
        /\ call[c].sessionId = "s1"
        /\ ~SessionHasMessages("s1")
        /\ \E k \in 1..Len(sessionFollowUps) :
            /\ sessionFollowUps[k].id = call[c].followUpId
            /\ sessionFollowUps[k].sessionId = "s2"
            /\ sessionFollowUps[k].usedAt = Undefined

\* C13: a prepare by a signed-in user with a users row ends with EMPTY_MESSAGE
\* when the trimmed prompt is blank and with MESSAGE_TOO_LONG when it is longer
\* than 2000 characters, whatever the session id refers to.
C13_PromptValidatedBeforeSession ==
    \A c \in Slots :
        (call[c].pc = "done" /\ call[c].kind \in PrepareKinds /\ call[c].userId \in users)
            => /\ call[c].prompt = Empty => call[c].outcome = "EMPTY_MESSAGE"
               /\ Len(call[c].prompt) > MAX_MESSAGE_LENGTH
                      => call[c].outcome = "MESSAGE_TOO_LONG"

\* The running action works on a session that exists and belongs to another
\* user.
OnForeignSession(c) ==
    /\ call[c].userId \in users
    /\ call[c].sessionId \in DOMAIN learningSessions
    /\ learningSessions[call[c].sessionId].userId # call[c].userId

\* C14: no step of a finalizeSessionTurn call on a session of another user
\* writes to a table, and the call ends with SESSION_NOT_FOUND.
C14_FinalizeOwnership ==
    [][\A c \in Slots :
        (call[c].kind = "finalizeSessionTurn" /\ call[c].pc # "done" /\ OnForeignSession(c))
            => /\ UNCHANGED <<learningSessions, sessionPhases, sessionTerms,
                              sessionMessages, sessionFollowUps>>
               /\ call'[c].pc = "done" => call'[c].outcome = "SESSION_NOT_FOUND"]_vars

(***************************************************************************)
(* Plan acceptance: the createLearningSession mutation, for every plan     *)
(* within the bounds, on the store of Init. The caller is not signed in or *)
(* is u1, whose users row ensureUser finds.                                *)
(***************************************************************************)

PlanMaxPhases == 2

PlanMaxTerms == 2

\* keyTerms.map(cleanString).filter(term => term !== undefined), with the
\* blank terms kept.
cleanKeyTerms_KeepBlank(keyTerms) ==
    [k \in 1..Len(keyTerms) |-> cleanString(Str(keyTerms[k]))]

\* keyTerms.map(cleanString).filter(term => term !== undefined)
cleanKeyTerms(keyTerms) ==
    SelectSeq([k \in 1..Len(keyTerms) |-> cleanString(Str(keyTerms[k]))],
              LAMBDA term : term # Empty)

\* A phase accepted whatever its key terms.
phaseTermsMissing_Never(keyTerms) == FALSE

\* keyTerms.length === 0, for the cleaned key terms of a phase.
phaseTermsMissing(keyTerms) == Len(keyTerms) = 0

\* What createLearningSession throws for the first phase that is not
\* acceptable, "ok" when every phase is.
RECURSIVE preparePhasesThrows(_, _)
preparePhasesThrows(planPhases, i) ==
    IF i > Len(planPhases) THEN "ok"
    ELSE IF \/ cleanString(Str(planPhases[i].name)) = Empty
            \/ cleanString(Str(planPhases[i].objective)) = Empty
         THEN "PLAN_PHASE_INVALID"
    ELSE IF phaseTermsMissing(cleanKeyTerms(planPhases[i].keyTerms))
         THEN "PLAN_PHASE_TERMS_REQUIRED"
    ELSE preparePhasesThrows(planPhases, i + 1)

createLearningSessionThrows(identity, plan) ==
    IF identity = "anonymous" THEN "NOT_AUTHENTICATED"
    ELSE IF cleanString(Str(plan.topic)) = Empty THEN "PLAN_TOPIC_REQUIRED"
    ELSE IF Len(plan.phases) = 0 THEN "PLAN_PHASES_REQUIRED"
    ELSE preparePhasesThrows(plan.phases, 1)

\* The term rows inserted for the phases from the i-th on, phase by phase.
RECURSIVE planTermRows(_, _, _)
planTermRows(sessionId, planPhases, i) ==
    IF i > Len(planPhases) THEN <<>>
    ELSE LET keyTerms == cleanKeyTerms(planPhases[i].keyTerms)
         IN  [k \in 1..Len(keyTerms) |-> TermRow(sessionId, i - 1, keyTerms[k], Undefined, 0)]
             \o planTermRows(sessionId, planPhases, i + 1)

\* The tables as the createLearningSession mutation leaves them: as they were
\* when it throws, the row ensureUser inserted included.
createLearningSession(identity, plan, sessionId, createdAt) ==
    LET threw == createLearningSessionThrows(identity, plan)
        termRows == planTermRows(sessionId, plan.phases, 1)
    IN  IF threw # "ok"
        THEN [threw |-> threw, users |-> users, sessions |-> learningSessions,
              phases |-> sessionPhases, terms |-> sessionTerms]
        ELSE [threw |-> threw,
              users |-> ensureUser(identity),
              sessions |->
                  [id \in DOMAIN learningSessions \cup {sessionId} |->
                      IF id = sessionId
                      THEN SessionRow(identity, Len(plan.phases), Len(termRows), createdAt)
                      ELSE learningSessions[id]],
              phases |->
                  sessionPhases \o
                  [i \in 1..Len(plan.phases) |->
                      [sessionId |-> sessionId, index |-> i - 1,
                       name |-> cleanString(Str(plan.phases[i].name)),
                       objective |-> cleanString(Str(plan.phases[i].objective))]],
              terms |-> sessionTerms \o termRows]

\* The plans callers pass: a topic, padded or blank; phases with a padded
\* name, a blank name or a blank objective; key terms padded or blank.
PlanTopics == {Chars(" AI "), <<" ", LineTabulation>>}

PlanPhaseTexts ==
    { <<Chars(" P "), Chars("o")>>, <<<<LineTabulation>>, Chars("o")>>,
      <<Chars("P"), <<ZeroWidthNoBreakSpace>>>> }

PlanKeyTerms == {<<LineTabulation>> \o Chars("t "), <<LineSeparator>>}

PlanPhases ==
    {[name |-> texts[1], objective |-> texts[2], keyTerms |-> keyTerms] :
        texts \in PlanPhaseTexts, keyTerms \in SeqsUpTo(PlanKeyTerms, PlanMaxTerms)}

Plans ==
    {[topic |-> topic, phases |-> planPhases] :
        topic \in PlanTopics, planPhases \in SeqsUpTo(PlanPhases, PlanMaxPhases)}

\* The id the inserted session row gets.
NewSessionId == "s3"

\* The createLearningSession mutation.
CreateLearningSession(c) ==
    /\ call[c].pc = "idle"
    /\ NewSessionId \notin DOMAIN learningSessions
    /\ \E identity \in Callers, plan \in Plans :
        LET created == createLearningSession(identity, plan, NewSessionId, now + 1)
        IN  /\ users' = created.users
            /\ learningSessions' = created.sessions
            /\ sessionPhases' = created.phases
            /\ sessionTerms' = created.terms
            /\ now' = IF created.threw = "ok" THEN now + 1 ELSE now
            /\ call' = [call EXCEPT ![c] =
                   [IdleCall EXCEPT !.pc = "done", !.kind = "createLearningSession",
                                    !.userId = identity, !.plan = plan,
                                    !.sessionId = NewSessionId,
                                    !.outcome = IF created.threw = "ok"
                                                THEN "created" ELSE created.threw]]
    /\ UNCHANGED <<sessionMessages, sessionFollowUps, nextFollowUpId>>
    /\ UNCHANGED <<fuVars, gwVars, pgVars, stream, tmVars>>

PlanNext == \E c \in Slots : CreateLearningSession(c) \/ SyncUserProfile(c) \/ Return(c)

SpecPlan == Init /\ [][PlanNext]_vars

\* A text of whitespace only.
IsBlank(text) == \A k \in 1..Len(text) : text[k] \in WhitespaceChars

\* The key terms of a plan that are not blank, as (phase, position) pairs.
NonBlankKeyTerms(plan) ==
    {<<i, k>> \in (1..Len(plan.phases)) \X (1..PlanMaxTerms) :
        /\ k <= Len(plan.phases[i].keyTerms)
        /\ ~IsBlank(plan.phases[i].keyTerms[k])}

ValidPlan(plan) ==
    /\ ~IsBlank(plan.topic)
    /\ Len(plan.phases) > 0
    /\ \A i \in 1..Len(plan.phases) :
        /\ ~IsBlank(plan.phases[i].name)
        /\ ~IsBlank(plan.phases[i].objective)
        /\ \E pair \in NonBlankKeyTerms(plan) : pair[1] = i

\* C15: createLearningSession with a valid plan creates one session with
\* totalPhases = number of phases, totalTerms = number of non-blank key terms
\* over all phases, completedTerms = 0, completedPhases = 0 and
\* currentPhaseIndex = 0, together with one phase row per phase and one
\* uncovered term row with exposureCount 0 per non-blank key term; with a
\* blank topic, zero phases, or a phase with a blank name or objective or
\* without a non-blank key term it fails and no session, phase or term row
\* is created.
C15_PlanAcceptanceAtomic ==
    [][\A c \in Slots :
        (call[c].pc = "idle" /\ call'[c].kind = "createLearningSession"
            /\ call'[c].userId # "anonymous") =>
            LET plan == call'[c].plan
                id == call'[c].sessionId
                phaseRows == RowsOf(sessionPhases', id)
                termRows == RowsOf(sessionTerms', id)
            IN  IF ValidPlan(plan)
                THEN /\ call'[c].outcome = "created"
                     /\ id \notin DOMAIN learningSessions
                     /\ DOMAIN learningSessions' = DOMAIN learningSessions \cup {id}
                     /\ \A other \in DOMAIN learningSessions :
                            learningSessions'[other] = learningSessions[other]
                     /\ learningSessions'[id].userId = call'[c].userId
                     /\ learningSessions'[id].totalPhases = Len(plan.phases)
                     /\ learningSessions'[id].totalTerms = Cardinality(NonBlankKeyTerms(plan))
                     /\ learningSessions'[id].completedTerms = 0
                     /\ learningSessions'[id].completedPhases = 0
                     /\ learningSessions'[id].currentPhaseIndex = 0
                     /\ Len(sessionPhases') = Len(sessionPhases) + Len(plan.phases)
                     /\ SubSeq(sessionPhases', 1, Len(sessionPhases)) = sessionPhases
                     /\ Len(phaseRows) = Len(plan.phases)
                     /\ \A i \in 1..Len(phaseRows) : phaseRows[i].index = i - 1
                     /\ Len(sessionTerms') = Len(sessionTerms) + Cardinality(NonBlankKeyTerms(plan))
                     /\ SubSeq(sessionTerms', 1, Len(sessionTerms)) = sessionTerms
                     /\ Len(termRows) = Cardinality(NonBlankKeyTerms(plan))
                     /\ \A k \in 1..Len(termRows) :
                            /\ termRows[k].firstCoveredAt = Undefined
                            /\ termRows[k].exposureCount = 0
                            /\ ~IsBlank(termRows[k].term)
                     /\ \A i \in 1..Len(plan.phases) :
                            Cardinality({k \in 1..Len(termRows) : termRows[k].phaseIndex = i - 1})
                                = Cardinality({pair \in NonBlankKeyTerms(plan) : pair[1] = i})
                ELSE /\ call'[c].outcome \in {"PLAN_TOPIC_REQUIRED", "PLAN_PHASES_REQUIRED",
                                              "PLAN_PHASE_INVALID", "PLAN_PHASE_TERMS_REQUIRED"}
                     /\ UNCHANGED <<learningSessions, sessionPhases, sessionTerms>>
      ]_vars

\* A plan of two phases with three key terms, one of them blank, was accepted.
C15_Witness ==
    \E c \in Slots :
        /\ call[c].pc = "done" /\ call[c].kind = "createLearningSession"
        /\ call[c].outcome = "created"
        /\ Len(call[c].plan.phases) = 2
        /\ \E i \in 1..2 : \E k \in 1..2 :
               /\ Len(call[c].plan.phases[i].keyTerms) = 2
               /\ IsBlank(call[c].plan.phases[i].keyTerms[k])
        /\ learningSessions[NewSessionId].totalTerms = 3
        /\ Len(RowsOf(sessionTerms, NewSessionId)) = 3

(***************************************************************************)
(* The streaming route: streamEvents of session-turn/stream/route.ts. The  *)
(* route calls prepareSessionTurn, reads the chat model's token stream and *)
(* calls finalizeSessionTurn, writing one frame per event to the response  *)
(* body; the client may abort the request while the route runs. The two    *)
(* Convex actions run as in Spec, step by step, in slot 1.                 *)
(***************************************************************************)

MaxChunks == 2

\* The text of a chunk of the token stream: none, blank, or naming t.
StreamDeltas == {Empty, <<LineTabulation>>, Chars("T!")}

PreparedEvent == [type |-> "prepared"]

DeltaEvent(token) == [type |-> "delta", token |-> token]

FinalEvent == [type |-> "final"]

ErrorEvent(message) == [type |-> "error", message |-> message]

\* sendEvent: writer.write rejects once the writer is closed.
sendEvent(st, event) ==
    IF st.writerClosed
    THEN [threw |-> TRUE, stream |-> st]
    ELSE [threw |-> FALSE, stream |-> [st EXCEPT !.frames = Append(@, event)]]

\* The catch block with the error event left out.
streamCatch_Silent(st, message) == [st EXCEPT !.pc = "finally", !.error = message]

\* The catch block: the error event is sent, and the finally block runs
\* whether or not that write is rejected.
streamCatch(st, message) ==
    [sendEvent(st, ErrorEvent(message)).stream EXCEPT !.pc = "finally", !.error = message]

\* A frame is written and the try block goes on at pc, or the write is
\* rejected and the catch block runs.
sendOrCatch(st, event, pc) ==
    LET sent == sendEvent(st, event)
    IN  IF sent.threw THEN streamCatch(sent.stream, "WRITE_REJECTED")
        ELSE [sent.stream EXCEPT !.pc = pc]

\* POST calls streamEvents, which creates the writer, adds the abort listener
\* and starts the task; POST then returns the response with the readable, and
\* the route takes further requests while this task runs.
StreamStart(r) ==
    /\ stream[r].pc = "idle"
    /\ call[r].pc = "idle"
    /\ RoomForMessages(2)
    /\ stream' = [stream EXCEPT ![r] = [IdleStream EXCEPT !.pc = "prepare"]]
    /\ UNCHANGED <<fuVars, gwVars, pgVars, coreVars, tmVars>>

\* fetchAction(api.mistral.prepareSessionTurn, ...)
StreamPrepare(c) ==
    /\ stream[c].pc = "prepare"
    /\ StartPrepareSessionTurn(c)

\* prepareSessionTurn has settled: the prepared event is sent, or the catch
\* block runs.
StreamPrepared(c) ==
    /\ stream[c].pc = "prepare"
    /\ call[c].pc = "done"
    /\ call' = [call EXCEPT ![c] = IdleCall]
    /\ stream' = [stream EXCEPT ![c] =
        IF call[c].outcome # "prepared"
        THEN streamCatch(stream[c], call[c].outcome)
        ELSE sendOrCatch([stream[c] EXCEPT !.userId = call[c].userId,
                                        !.sessionId = call[c].sessionId,
                                        !.userMessageId = call[c].userMessageId],
                         PreparedEvent, "open")]
    /\ UNCHANGED storeVars
    /\ UNCHANGED <<fuVars, gwVars, pgVars, tmVars>>

\* The API key check and client.chat.stream(...), which may throw.
StreamOpen(r) ==
    /\ stream[r].pc = "open"
    /\ \E apiKey \in BOOLEAN, opened \in BOOLEAN :
        stream' = [stream EXCEPT ![r] =
            IF ~apiKey THEN streamCatch(stream[r], "MISTRAL_API_KEY_NOT_CONFIGURED")
            ELSE IF ~opened THEN streamCatch(stream[r], "STREAM_REQUEST_FAILED")
            ELSE [stream[r] EXCEPT !.pc = "streaming"]]
    /\ UNCHANGED <<fuVars, gwVars, pgVars, coreVars, tmVars>>

\* One pass of the for await loop: a chunk with text is added to aggregated
\* and sent as a delta event.
StreamChunk(r) ==
    /\ stream[r].pc = "streaming"
    /\ stream[r].chunkIndex < MaxChunks
    /\ \E deltaText \in StreamDeltas :
        LET counted == [stream[r] EXCEPT !.chunkIndex = @ + 1]
        IN  stream' = [stream EXCEPT ![r] =
                IF Len(deltaText) > 0
                THEN sendOrCatch([counted EXCEPT !.aggregated = @ \o deltaText],
                                 DeltaEvent(deltaText), "streaming")
                ELSE counted]
    /\ UNCHANGED <<fuVars, gwVars, pgVars, coreVars, tmVars>>

\* The token stream fails.
StreamThrow(r) ==
    /\ stream[r].pc = "streaming"
    /\ stream' = [stream EXCEPT ![r] = streamCatch(stream[r], "STREAM_FAILED")]
    /\ UNCHANGED <<fuVars, gwVars, pgVars, coreVars, tmVars>>

\* The check of the text received with no check at all.
emptyResponse_Never(aggregated) == FALSE

\* aggregated.trim().length === 0
emptyResponse(aggregated) == cleanString(Str(aggregated)) = Empty

\* The token stream ends: the check of aggregated.trim().
StreamEnd(r) ==
    /\ stream[r].pc = "streaming"
    /\ stream' = [stream EXCEPT ![r] =
        IF emptyResponse(stream[r].aggregated)
        THEN streamCatch(stream[r], "Mistral returned an empty response")
        ELSE [stream[r] EXCEPT !.pc = "finalize"]]
    /\ UNCHANGED <<fuVars, gwVars, pgVars, coreVars, tmVars>>

\* fetchAction(api.mistral.finalizeSessionTurn, ...)
StreamFinalize(c) ==
    /\ stream[c].pc = "finalize"
    /\ BeginFinalize(c, stream[c].userId, stream[c].sessionId, stream[c].userMessageId,
                     cleanString(Str(stream[c].aggregated)))

\* finalizeSessionTurn has settled: the final event is sent, or the catch
\* block runs.
StreamFinal(c) ==
    /\ stream[c].pc = "finalize"
    /\ call[c].pc = "done"
    /\ call' = [call EXCEPT ![c] = IdleCall]
    /\ stream' = [stream EXCEPT ![c] =
        IF call[c].outcome # "ok"
        THEN streamCatch(stream[c], call[c].outcome)
        ELSE sendOrCatch(stream[c], FinalEvent, "finally")]
    /\ UNCHANGED storeVars
    /\ UNCHANGED <<fuVars, gwVars, pgVars, tmVars>>

\* The finally block: the abort listener is removed and the writer closed.
StreamClose(r) ==
    /\ stream[r].pc = "finally"
    /\ stream' = [stream EXCEPT ![r] = [stream[r] EXCEPT !.pc = "closed", !.writerClosed = TRUE]]
    /\ UNCHANGED <<fuVars, gwVars, pgVars, coreVars, tmVars>>

\* The client aborts the request: abortHandler closes the writer.
StreamAbort(r) ==
    /\ stream[r].pc \in {"prepare", "open", "streaming", "finalize", "finally"}
    /\ ~stream[r].aborted
    /\ stream' = [stream EXCEPT ![r] = [stream[r] EXCEPT !.aborted = TRUE, !.writerClosed = TRUE]]
    /\ UNCHANGED <<fuVars, gwVars, pgVars, coreVars, tmVars>>

\* The task has ended and its writer is closed: nothing of the request is
\* left, and the slot stands for a later request.
StreamReset(r) ==
    /\ stream[r].pc = "closed"
    /\ stream' = [stream EXCEPT ![r] = IdleStream]
    /\ UNCHANGED <<fuVars, gwVars, pgVars, coreVars, tmVars>>

\* The steps of the route's task, without the client's.
StreamTask ==
    \E c \in Slots :
        \/ StreamOpen(c)
        \/ StreamChunk(c)
        \/ StreamThrow(c)
        \/ StreamEnd(c)
        \/ StreamClose(c)
        \/ StreamPrepare(c)
        \/ PrepareContext(c)
        \/ LogSessionUserMessage(c)
        \/ StreamPrepared(c)
        \/ StreamFinalize(c)
        \/ RecordAssistantTurn(c)
        \/ FinalizeContext(c)
        \/ GenerateFollowUps(c)
        \/ ReplaceSessionFollowUps(c)
        \/ StreamFinal(c)

\* The turn without streaming: runSessionTurn is called while the route has no
\* request.
RunSessionTurn(c) ==
    /\ stream[c].pc = "idle"
    /\ StartRunSessionTurn(c)

\* runSessionTurn has settled.
RunReturn(c) ==
    /\ stream[c].pc = "idle"
    /\ Return(c)

StreamNext ==
    \/ StreamTask
    \/ \E c \in Slots :
        \/ StreamStart(c)
        \/ StreamAbort(c)
        \/ StreamReset(c)
        \/ RunSessionTurn(c)
        \/ TurnCallMistral(c)
        \/ RunReturn(c)

SpecStream == Init /\ [][StreamNext]_vars

\* The route's task is not held up for ever: the token stream ends or fails,
\* the response body is read, and an awaited Convex action, whose every step
\* can always be taken, settles.
SpecStreamFair ==
    /\ SpecStream
    /\ \A c \in Slots :
        /\ WF_vars(StreamOpen(c)) /\ WF_vars(StreamEnd(c)) /\ WF_vars(StreamClose(c))
        /\ WF_vars(StreamPrepare(c)) /\ WF_vars(StreamPrepared(c))
        /\ WF_vars(StreamFinalize(c)) /\ WF_vars(StreamFinal(c))
        /\ []<>(call[c].pc \in {"idle", "done"})

\* POST with {sessionId: s1, prompt: "hi"} by u1
StreamRacePrepare(c) ==
    /\ stream[c].pc = "prepare"
    /\ BeginPrepare(c, "prepareSessionTurn", "u1", "s1", Chars("hi"), NoId)

\* Two requests of the route at once: the task of the second starts while the
\* task of the first is at any of its awaits.
StreamRaceNext ==
    \E c \in RaceSlots :
        \/ StreamStart(c)
        \/ StreamRacePrepare(c)
        \/ PrepareContext(c)
        \/ LogSessionUserMessage(c)
        \/ StreamPrepared(c)
        \/ StreamOpen(c)
        \/ StreamChunk(c)
        \/ StreamThrow(c)
        \/ StreamEnd(c)
        \/ StreamFinalize(c)
        \/ RecordAssistantTurn(c)
        \/ FinalizeContext(c)
        \/ GenerateFollowUps(c)
        \/ ReplaceSessionFollowUps(c)
        \/ StreamFinal(c)
        \/ StreamClose(c)
        \/ StreamAbort(c)
        \/ StreamReset(c)

SpecStreamRace == Init /\ [][StreamRaceNext]_vars

\* Two requests have interleaved: both user messages were logged before either
\* assistant message was recorded.
InterleavedRequests ==
    \E m \in 1..(Len(sessionMessages) - 3) :
        /\ \A k \in m..(m + 3) : sessionMessages[k].sessionId = "s1"
        /\ sessionMessages[m].role = "user" /\ sessionMessages[m + 1].role = "user"
        /\ sessionMessages[m + 2].role = "assistant" /\ sessionMessages[m + 3].role = "assistant"

\* The positions of the terminal events among the frames written to request r.
TerminalFrames(r) ==
    {i \in 1..Len(stream[r].frames) : stream[r].frames[i].type \in {"final", "error"}}

\* C16 as stated: whenever the response body is closed, exactly one terminal
\* event has been written and it is the last frame.
C16_TerminalEventInEveryRun ==
    \A r \in Slots :
        stream[r].writerClosed =>
            /\ Cardinality(TerminalFrames(r)) = 1
            /\ TerminalFrames(r) = {Len(stream[r].frames)}

\* C16: at most one terminal event (final or error) is ever written and no
\* frame follows it; when the route's finally block has closed the response
\* body, a terminal event is its last frame unless the client aborted the
\* request, which closes the body at once and has every later write rejected;
\* and every request the route has started reaches the closed body.
C16_TerminalEventUnlessAborted ==
    \A r \in Slots :
        /\ [](/\ Cardinality(TerminalFrames(r)) <= 1
              /\ TerminalFrames(r) \subseteq {Len(stream[r].frames)}
              /\ TerminalFrames(r) # {} => stream[r].pc \in {"finally", "closed"}
              /\ (stream[r].writerClosed /\ ~stream[r].aborted) =>
                     /\ stream[r].pc = "closed"
                     /\ TerminalFrames(r) = {Len(stream[r].frames)}
              /\ (stream[r].pc = "closed" /\ TerminalFrames(r) = {}) => stream[r].aborted)
        /\ (stream[r].pc = "prepare") ~> (stream[r].pc = "closed")

\* A request nobody aborted ended with prepared, two deltas and final.
C16_Witness ==
    \E r \in Slots :
        /\ stream[r].pc = "closed"
        /\ ~stream[r].aborted
        /\ Len(stream[r].frames) = 4
        /\ stream[r].frames[1] = PreparedEvent
        /\ stream[r].frames[2].type = "delta" /\ stream[r].frames[3].type = "delta"
        /\ stream[r].frames[4] = FinalEvent

\* What the route catches when the chat model fails or yields no text.
StreamLlmFailures ==
    {"MISTRAL_API_KEY_NOT_CONFIGURED", "STREAM_REQUEST_FAILED", "STREAM_FAILED",
     "Mistral returned an empty response"}

\* The row of the user message is the last message row.
UserMessageIsLast(userMessageId) ==
    /\ userMessageId = Len(sessionMessages)
    /\ sessionMessages[userMessageId].role = "user"

\* C17: when the chat model fails or yields only whitespace after prepare
\* succeeded, in runSessionTurn or in the streaming route after any number of
\* delta events, the turn ends in that step without finalize being invoked:
\* no table changes in the step, runSessionTurn throws and the route goes to
\* its catch block with no Convex action running, and the user message prepare
\* logged stays the last message row.
C17_FailedTurnPersistsNothing ==
    /\ [][\A c \in Slots :
            /\ (/\ stream[c].pc \in {"open", "streaming"}
                /\ \/ stream'[c].error \in StreamLlmFailures
                   \/ /\ stream[c].pc = "streaming" /\ stream'[c].pc # "streaming"
                      /\ stream'[c].chunkIndex = stream[c].chunkIndex
                      /\ IsBlank(stream[c].aggregated))
               => /\ stream'[c].pc = "finally"
                  /\ stream'[c].error \in StreamLlmFailures
                  /\ call'[c].pc = "idle"
                  /\ UNCHANGED storeVars
            /\ (/\ call[c].pc = "llm" /\ call[c].kind = "runSessionTurn"
                /\ call'[c].pc # "record")
                   => /\ call'[c].pc = "done"
                      /\ call'[c].outcome \in LlmErrorCodes \cup {"EMPTY_MESSAGE"}
                      /\ UNCHANGED storeVars
         ]_vars
    /\ [](\A c \in Slots :
            /\ (stream[c].pc \in {"finally", "closed"} /\ stream[c].error \in StreamLlmFailures)
                  => UserMessageIsLast(stream[c].userMessageId)
            /\ (/\ call[c].pc = "done" /\ call[c].kind = "runSessionTurn"
                /\ call[c].userMessageId # NoId
                /\ call[c].outcome \in LlmErrorCodes \cup {"EMPTY_MESSAGE"})
                   => UserMessageIsLast(call[c].userMessageId))

\* The route has closed the stream after two blank delta events and the error
\* event, with the user message logged.
C17_Witness ==
    \E r \in Slots :
        /\ stream[r].pc = "closed"
        /\ stream[r].error = "Mistral returned an empty response"
        /\ Len(stream[r].frames) = 4
        /\ stream[r].frames[2] = DeltaEvent(<<LineTabulation>>)
        /\ stream[r].frames[3] = DeltaEvent(<<LineTabulation>>)
        /\ stream[r].frames[4].type = "error"
        /\ UserMessageIsLast(stream[r].userMessageId)

\* C18: a prepare that succeeds with a follow-up id inserts one user message
\* and sets the usedAt of that follow-up, a row of the same session, to the
\* createdAt of that message; and whenever the usedAt of any follow-up row
\* changes, the same step inserts a user message of the row's session with
\* that createdAt, so a follow-up of another session is never marked used.
C18_FollowUpUsedWithMessage ==
    [][/\ \A c \in Slots :
            (/\ call[c].pc = "log" /\ call[c].followUpId # NoId
             /\ call'[c].outcome \in {"prepared", "none"})
                => /\ Len(sessionMessages') = Len(sessionMessages) + 1
                   /\ \E k \in 1..Len(sessionFollowUps') :
                        /\ sessionFollowUps'[k].id = call[c].followUpId
                        /\ sessionFollowUps'[k].sessionId = call[c].sessionId
                        /\ sessionFollowUps'[k].usedAt
                               = sessionMessages'[Len(sessionMessages')].createdAt
       /\ \A k \in 1..Len(sessionFollowUps) : \A j \in 1..Len(sessionFollowUps') :
            (/\ sessionFollowUps'[j].id = sessionFollowUps[k].id
             /\ sessionFollowUps'[j].usedAt # sessionFollowUps[k].usedAt)
                => /\ Len(sessionMessages') = Len(sessionMessages) + 1
                   /\ SubSeq(sessionMessages', 1, Len(sessionMessages)) = sessionMessages
                   /\ LET message == sessionMessages'[Len(sessionMessages')]
                      IN  /\ message.role = "user"
                          /\ message.sessionId = sessionFollowUps[k].sessionId
                          /\ message.createdAt = sessionFollowUps'[j].usedAt
                   /\ \E c \in Slots :
                        /\ call[c].pc = "log"
                        /\ call[c].followUpId = sessionFollowUps[k].id
                        /\ call[c].sessionId = sessionFollowUps[k].sessionId
      ]_vars

\* A suggestion of s1 was used for the message logged last.
C18_Witness ==
    \E k \in 1..Len(sessionFollowUps) :
        /\ sessionFollowUps[k].sessionId = "s1"
        /\ sessionFollowUps[k].usedAt # Undefined
        /\ Len(sessionMessages) > 0
        /\ sessionMessages[Len(sessionMessages)].role = "user"
        /\ sessionMessages[Len(sessionMessages)].createdAt = sessionFollowUps[k].usedAt
        /\ \E c \in Slots : call[c].followUpId = sessionFollowUps[k].id

\* C19: a replaceSessionFollowUps that does not throw removes every row of
\* its session without usedAt and leaves every used row of the session and
\* every row of the other sessions in the table as they were; and no step at
\* all removes a used row.
C19_RefreshDeletesOnlyUnused ==
    [][/\ \A c \in Slots :
            (call[c].pc = "replace" /\ call[c].sessionId \in DOMAIN learningSessions) =>
                \A k \in 1..Len(sessionFollowUps) :
                    LET followUp == sessionFollowUps[k]
                        kept == {j \in 1..Len(sessionFollowUps') :
                                    sessionFollowUps'[j].id = followUp.id}
                    IN  IF followUp.sessionId = call[c].sessionId /\ followUp.usedAt = Undefined
                        THEN kept = {}
                        ELSE /\ Cardinality(kept) = 1
                             /\ \A j \in kept : sessionFollowUps'[j] = followUp
       /\ \A k \in 1..Len(sessionFollowUps) :
            sessionFollowUps[k].usedAt # Undefined =>
                \E j \in 1..Len(sessionFollowUps') :
                    /\ sessionFollowUps'[j].id = sessionFollowUps[k].id
                    /\ sessionFollowUps'[j].usedAt # Undefined
      ]_vars

\* refreshSessionFollowUps has replaced the batch of s1, which has a used
\* suggestion of an earlier batch, while the three rows of s2 are all there.
C19_Witness ==
    \E c \in Slots :
        /\ call[c].pc = "done" /\ call[c].kind = "refreshSessionFollowUps"
        /\ call[c].outcome = "refreshed" /\ call[c].sessionId = "s1"
        /\ \E k \in 1..Len(sessionFollowUps) :
            /\ sessionFollowUps[k].sessionId = "s1"
            /\ sessionFollowUps[k].usedAt # Undefined
            /\ \A j \in 1..Len(sessionFollowUps) :
                (sessionFollowUps[j].sessionId = "s1" /\ j # k)
                    => /\ sessionFollowUps[j].usedAt = Undefined
                       /\ sessionFollowUps[j].id > sessionFollowUps[k].id + 2
        /\ Len(RowsOf(sessionFollowUps, "s1")) = 1 + FollowUpTarget
        /\ Len(RowsOf(sessionFollowUps, "s2")) = 3

(***************************************************************************)
(* Term matcher runs: detectCoveredTerms on every body and every list of   *)
(* term rows within the bounds.                                            *)
(***************************************************************************)

TmMaxTerms == 2

\* Bodies: a term inside a longer word, punctuation between and after words,
\* two letters with only a diacritic between them, a letter with a diacritic
\* after a carriage return, blank.
TmBodies == {Chars("Cats"), Chars("U-V!"), Chars("u^v"), Chars("xæ\rà"), Chars(" \r")}

\* Terms: part of a word, two words, two words joined by punctuation, a
\* parenthetical after a letter with a diacritic, a parenthetical alone, a
\* parenthetical after a line tabulation, a parenthetical after punctuation,
\* blank, and words in another order.
TmTermTexts ==
    {Chars("at"), Chars("u v"), Chars("u-v"), Chars("Ö (x)"), Chars("(x)"),
     <<LineTabulation>> \o Chars("(x)"), Chars("- (x)"), Chars(" "), Chars("t a")}

TmInit ==
    /\ tmPc = "start"
    /\ tmBody \in TmBodies
    /\ tmTerms \in SeqsUpTo({[term |-> text] : text \in TmTermTexts}, TmMaxTerms)
    /\ tmMatches = <<>>
    /\ FuIdle
    /\ GwIdle
    /\ PgIdle
    /\ stream = [r \in RaceSlots |-> IdleStream]
    /\ users = {}
    /\ learningSessions = <<>>
    /\ sessionPhases = <<>>
    /\ sessionTerms = <<>>
    /\ sessionMessages = <<>>
    /\ sessionFollowUps = <<>>
    /\ nextFollowUpId = 1
    /\ now = 0
    /\ call = [c \in RaceSlots |-> IdleCall]

\* detectCoveredTerms(body, terms)
DetectCoveredTerms ==
    /\ tmPc = "start"
    /\ tmMatches' = detectCoveredTerms(tmBody, tmTerms, [k \in 1..Len(tmTerms) |-> k])
    /\ tmPc' = "done"
    /\ UNCHANGED <<tmBody, tmTerms>>
    /\ UNCHANGED <<fuVars, gwVars, pgVars, coreVars, stream>>

TmNext == DetectCoveredTerms

SpecMatcher == TmInit /\ [][TmNext]_vars

\* The words of a text: its maximal runs of letters and digits, lower-cased
\* and without diacritics, in order.
RECURSIVE RunsOf(_)
RunsOf(plain) ==
    LET starts == {i \in 1..Len(plain) : IsLetterOrNumber(plain[i])}
    IN  IF starts = {} THEN <<>>
        ELSE LET first == CHOOSE i \in starts : \A j \in starts : i <= j
                 stops == {i \in first..Len(plain) :
                              i = Len(plain) \/ ~IsLetterOrNumber(plain[i + 1])}
                 last == CHOOSE i \in stops : \A j \in stops : i <= j
             IN  <<SubSeq(plain, first, last)>> \o RunsOf(SubSeq(plain, last + 1, Len(plain)))

WordsOf(text) ==
    RunsOf(toLowerCase(SelectSeq([i \in 1..Len(text) |-> baseLetter(text[i])],
                                 LAMBDA c : c \notin DiacriticSet)))

\* Words joined by single spaces.
RECURSIVE JoinWords(_)
JoinWords(words) ==
    IF words = <<>> THEN <<>>
    ELSE IF Len(words) = 1 THEN words[1]
    ELSE words[1] \o <<" ">> \o JoinWords(Tail(words))

\* The text before the first "(" of a term.
HeadOf(text) ==
    IF \E i \in 1..Len(text) : text[i] = "("
    THEN SubSeq(text, 1, (CHOOSE i \in 1..Len(text) :
                             text[i] = "(" /\ \A j \in 1..(i - 1) : text[j] # "(") - 1)
    ELSE text

\* One text occurs in another as a run of consecutive characters.
OccursIn(part, whole) ==
    \E i \in 0..(Len(whole) - Len(part)) :
        \A k \in 1..Len(part) : whole[i + k] = part[k]

\* C20 as stated: the rows returned are exactly those whose normal form,
\* taken from the part before any "(", is not empty and occurs in the normal
\* form of the body; a term with an empty normal form is not returned.
C20_MatchOnPartBeforeParenthesis ==
    tmPc = "done" =>
        \A k \in 1..Len(tmTerms) :
            LET normalForm == JoinWords(WordsOf(HeadOf(tmTerms[k].term)))
            IN  (\E m \in 1..Len(tmMatches) : tmMatches[m] = k)
                    <=> (normalForm # <<>> /\ OccursIn(normalForm, JoinWords(WordsOf(tmBody))))

\* The text a term is matched by: the part before the first "(" of the
\* trimmed term, or the whole term when nothing precedes that "(".
MatchedPartOf(text) ==
    IF HeadOf(trim(text)) = <<>> THEN trim(text) ELSE HeadOf(trim(text))

\* C20: detectCoveredTerms returns, in the order given and each once, exactly
\* the rows whose normal form is not empty and occurs as a run of consecutive
\* characters in the normal form of the body, with no check of word
\* boundaries. The normal form of a text is its words (runs of letters and
\* digits, lower-cased, without diacritics) joined by single spaces, every
\* other character counting as a separator; for a term it is taken from the
\* part before the first "(", or from the whole term when nothing precedes
\* that "(".
C20_SubstringMatchOnNormalForm ==
    tmPc = "done" =>
        /\ \A m \in 1..Len(tmMatches) : tmMatches[m] \in 1..Len(tmTerms)
        /\ \A m \in 1..(Len(tmMatches) - 1) : tmMatches[m] < tmMatches[m + 1]
        /\ \A k \in 1..Len(tmTerms) :
            LET normalForm == JoinWords(WordsOf(MatchedPartOf(tmTerms[k].term)))
            IN  (\E m \in 1..Len(tmMatches) : tmMatches[m] = k)
                    <=> (normalForm # <<>> /\ OccursIn(normalForm, JoinWords(WordsOf(tmBody))))

\* "at" was found inside "Cats", and "t a" was not.
C20_Witness ==
    /\ tmPc = "done"
    /\ tmBody = Chars("Cats")
    /\ tmTerms = <<[term |-> Chars("t a")], [term |-> Chars("at")]>>
    /\ tmMatches = <<2>>

\* Whether a body mentions a term: the normal form of the term is not empty
\* and occurs in the normal form of the body.
Mentions(body, termText) ==
    LET normalForm == JoinWords(WordsOf(MatchedPartOf(termText)))
    IN  normalForm # <<>> /\ OccursIn(normalForm, JoinWords(WordsOf(body)))

\* The steps in which the recordAssistantTurn mutation of slot c commits.
RecordCommits(c) ==
    /\ call[c].pc = "record"
    /\ call'[c].pc \in {"contextAfter", "followUps"}

\* C21: the newlyCoveredTerms a recordAssistantTurn returns are, in row
\* order, the names of the session's terms the body mentions whose
\* firstCoveredAt was unset before the step, so a term covered earlier is not
\* reported again; the termsCovered of the inserted message are the names of
\* all terms the body mentions, each name once.
C21_NewlyCoveredTerms ==
    [][\A c \in Slots : RecordCommits(c) =>
        LET sessionId == call[c].sessionId
            body == call'[c].assistantBody
            mentioned == SelectSeq(RowIdsOf(sessionTerms, sessionId),
                                   LAMBDA id : Mentions(body, sessionTerms[id].term))
            fresh == SelectSeq(mentioned, LAMBDA id : sessionTerms[id].firstCoveredAt = Undefined)
            termsCovered == sessionMessages'[Len(sessionMessages')].termsCovered
        IN  /\ call'[c].newlyCoveredTerms = [k \in 1..Len(fresh) |-> sessionTerms[fresh[k]].term]
            /\ {termsCovered[k] : k \in 1..Len(termsCovered)}
                   = {sessionTerms[mentioned[k]].term : k \in 1..Len(mentioned)}
            /\ \A j, k \in 1..Len(termsCovered) : termsCovered[j] = termsCovered[k] => j = k
      ]_vars

\* A finalize step whose body names terms that were all covered before: the
\* message lists them, and none is reported as newly covered.
C21_Witness ==
    \E c \in Slots :
        /\ call[c].pc = "contextAfter"
        /\ call[c].newlyCoveredTerms = <<>>
        /\ sessionMessages[call[c].assistantMessageId].termsCovered
               = <<Chars("t"), Chars("T (x)")>>

(***************************************************************************)
(* Racing calls: u1 has two actions on s1 in flight at the same time, each *)
(* an introduction, a turn (runSessionTurn) or an explicit refresh of the  *)
(* follow-ups. Every query, mutation and model call of an action is one    *)
(* step, and the steps of the two actions interleave freely.               *)
(***************************************************************************)

\* startSessionIntroduction({sessionId: s1}) by u1
RaceIntroduction(c) ==
    /\ StartSessionIntroduction(c)
    /\ call'[c].userId = "u1"
    /\ call'[c].sessionId = "s1"

\* runSessionTurn({sessionId: s1, prompt: "hi"}) by u1
RaceTurn(c) == BeginPrepare(c, "runSessionTurn", "u1", "s1", Chars("hi"), NoId)

\* refreshSessionFollowUps({sessionId: s1}) by u1
RaceRefresh(c) ==
    /\ StartRefreshSessionFollowUps(c)
    /\ call'[c].userId = "u1"
    /\ call'[c].sessionId = "s1"
    /\ call'[c].assistantMessageId = NoId

RaceNext ==
    \E c \in RaceSlots :
        \/ RaceIntroduction(c)
        \/ RaceTurn(c)
        \/ RaceRefresh(c)
        \/ IntroductionContext(c)
        \/ IntroductionCallMistral(c)
        \/ PrepareContext(c)
        \/ LogSessionUserMessage(c)
        \/ TurnCallMistral(c)
        \/ RecordAssistantTurn(c)
        \/ FinalizeContext(c)
        \/ GenerateFollowUps(c)
        \/ ReplaceSessionFollowUps(c)
        \/ RefreshContext(c)
        \/ Return(c)

SpecRace == Init /\ [][RaceNext]_vars

\* The introduction calls that have persisted a welcome message for the session.
WelcomeWriters(sessionId) ==
    {c \in RaceSlots : /\ call[c].kind = "startSessionIntroduction"
                       /\ call[c].sessionId = sessionId
                       /\ call[c].assistantMessageId # NoId}

\* C22: of two startSessionIntroduction calls in flight on the same empty
\* session at most one persists an introduction assistant message (the
\* other reports alreadyInitialized).
C22_WelcomeGeneratedOnce ==
    \A sessionId \in SessionArgs : Cardinality(WelcomeWriters(sessionId)) <= 1

\* The assistant messages of the term's session whose body mentions the term,
\* as ids (ids are given in the order of the commits).
MatchingMessages(termId) ==
    {m \in 1..Len(sessionMessages) :
        /\ sessionMessages[m].role = "assistant"
        /\ sessionMessages[m].sessionId = sessionTerms[termId].sessionId
        /\ Mentions(sessionMessages[m].body, sessionTerms[termId].term)}

\* C23: whatever the interleaving of the calls, every term's exposureCount is
\* the number of persisted assistant messages of its session that mention it,
\* its firstCoveredAt is the createdAt of the first of them to be committed
\* (absent when there is none), and the counters cached on the session are
\* those recomputed from the term rows.
C23_RacingTurnsLoseNoCoverage ==
    /\ \A termId \in 1..Len(sessionTerms) :
        LET matching == MatchingMessages(termId)
        IN  /\ sessionTerms[termId].exposureCount = Cardinality(matching)
            /\ sessionTerms[termId].firstCoveredAt =
                   IF matching = {} THEN Undefined
                   ELSE sessionMessages[CHOOSE m \in matching :
                                            \A n \in matching : m <= n].createdAt
    /\ \A sessionId \in DOMAIN learningSessions :
        LET rows == RowsOf(sessionTerms, sessionId)
            progress == buildPhaseProgress(RowsOf(sessionPhases, sessionId), rows)
            recomputed == sessionAggregates(progress, rows)
        IN  /\ learningSessions[sessionId].completedTerms = recomputed.completedTerms
            /\ learningSessions[sessionId].completedPhases = recomputed.completedPhases
            /\ learningSessions[sessionId].currentPhaseIndex = recomputed.currentPhaseIndex

\* Two turns on s1 that raced: each logged its prompt before the other
\* recorded its reply, both replies are persisted and both mention the same
\* term.
C23_Witness ==
    /\ \A c \in RaceSlots : /\ call[c].kind = "runSessionTurn"
                            /\ call[c].sessionId = "s1"
                            /\ call[c].assistantMessageId # NoId
    /\ call[1].userMessageId < call[2].assistantMessageId
    /\ call[2].userMessageId < call[1].assistantMessageId
    /\ \E termId \in 1..Len(sessionTerms) :
        /\ sessionTerms[termId].sessionId = "s1"
        /\ sessionTerms[termId].exposureCount = 2
        /\ Cardinality(MatchingMessages(termId)) = 2

\* The assistant messages of the session, as ids.
AssistantMessagesOf(sessionId) ==
    {m \in 1..Len(sessionMessages) : /\ sessionMessages[m].sessionId = sessionId
                                     /\ sessionMessages[m].role = "assistant"}

\* No call is between its start and its return, so no refresh of follow-ups
\* is under way.
NoRefreshInFlight == \A c \in RaceSlots : call[c].pc \in {"idle", "done"}

\* C24: whenever no follow-up refresh is in flight, every unused follow-up of
\* a session is tagged with the most recent assistant message of the session.
C24_UnusedBatchOfLatestMessage ==
    NoRefreshInFlight =>
        \A sessionId \in DOMAIN learningSessions :
            LET unused == UnusedFollowUps(sessionFollowUps, sessionId)
            IN  \A k \in 1..Len(unused) :
                    /\ unused[k].generatedForMessageId \in AssistantMessagesOf(sessionId)
                    /\ \A m \in AssistantMessagesOf(sessionId) :
                           m <= unused[k].generatedForMessageId

\* The route's request was aborted after the prepared event had been written.
AbortedAfterPrepare(r) ==
    /\ stream[r].aborted
    /\ Len(stream[r].frames) >= 1
    /\ stream[r].frames[1] = PreparedEvent

\* An assistant message of the request's session follows its user message.
ReplyPersisted(r) ==
    \E m \in (stream[r].userMessageId + 1)..Len(sessionMessages) :
        /\ sessionMessages[m].sessionId = stream[r].sessionId
        /\ sessionMessages[m].role = "assistant"

\* C25: a request the client aborted after prepare still runs its turn to the
\* end: when the route's task is over and the chat model neither failed nor
\* came back empty, finalizeSessionTurn has been invoked and the assistant
\* message is persisted.
C25_AbortKeepsPersistence ==
    \A r \in Slots :
        (/\ stream[r].pc = "closed"
         /\ AbortedAfterPrepare(r)
         /\ stream[r].error \notin StreamLlmFailures)
            => ReplyPersisted(r)

\* C26: a recordAssistantTurn step that commits raises the exposureCount of
\* every term of its session that the body mentions by exactly 1, however
\* often the body mentions it, and leaves every other term row as it was,
\* those of other sessions included; it changes no phase row and no earlier
\* message, inserts one message, and changes no session's totalTerms or
\* totalPhases and no other session's row.
C26_FinalizeFrame ==
    [][\A c \in Slots : RecordCommits(c) =>
          LET sessionId == call[c].sessionId
              body == sessionMessages'[Len(sessionMessages')].body
          IN  /\ Len(sessionTerms') = Len(sessionTerms)
              /\ \A k \in 1..Len(sessionTerms) :
                    IF /\ sessionTerms[k].sessionId = sessionId
                       /\ Mentions(body, sessionTerms[k].term)
                    THEN sessionTerms'[k].exposureCount = sessionTerms[k].exposureCount + 1
                    ELSE sessionTerms'[k] = sessionTerms[k]
              /\ sessionPhases' = sessionPhases
              /\ Len(sessionMessages') = Len(sessionMessages) + 1
              /\ SubSeq(sessionMessages', 1, Len(sessionMessages)) = sessionMessages
              /\ DOMAIN learningSessions' = DOMAIN learningSessions
              /\ \A other \in DOMAIN learningSessions :
                    /\ learningSessions'[other].totalTerms = learningSessions[other].totalTerms
                    /\ learningSessions'[other].totalPhases = learningSessions[other].totalPhases
                    /\ other # sessionId => learningSessions'[other] = learningSessions[other]
      ]_vars

\* A reply that names t twice has been recorded on s1 a second time: t has
\* been exposed twice, u v not at all.
C26_Witness ==
    \E c \in Slots :
        /\ call[c].pc = "contextAfter"
        /\ call[c].sessionId = "s1"
        /\ Len(WordsOf(sessionMessages[call[c].assistantMessageId].body)) = 2
        /\ \E k \in 1..Len(sessionTerms) :
            /\ sessionTerms[k].sessionId = "s1"
            /\ sessionTerms[k].term = Chars("t")
            /\ sessionTerms[k].exposureCount = 2
        /\ \E k \in 1..Len(sessionTerms) :
            /\ sessionTerms[k].sessionId = "s1"
            /\ sessionTerms[k].term = Chars("u v")
            /\ sessionTerms[k].exposureCount = 0

\* C27: a finalizeSessionTurn that fails with USER_MESSAGE_NOT_FOUND has
\* persisted no assistant message, has covered no term and has stored no
\* follow-up batch.
C27_DanglingReferenceChangesNothing ==
    \A c \in Slots :
        (call[c].pc = "done" /\ call[c].outcome = "USER_MESSAGE_NOT_FOUND")
            => /\ call[c].assistantMessageId = NoId
               /\ call[c].newlyCoveredTerms = <<>>
               /\ \A k \in 1..Len(sessionFollowUps) :
                      sessionFollowUps[k].generatedForMessageId # call[c].assistantMessageId

\* C28: on every session row completedTerms and completedPhases never
\* decrease and lie within 0..totalTerms and 0..totalPhases; currentPhaseIndex
\* never decreases while it is set, is absent only when every phase is
\* complete, and once absent stays absent.
C28_ProgressNeverRegresses ==
    /\ [](\A sessionId \in DOMAIN learningSessions :
            LET session == learningSessions[sessionId]
            IN  /\ session.completedTerms \in 0..session.totalTerms
                /\ session.completedPhases \in 0..session.totalPhases
                /\ session.currentPhaseIndex = NoPhase
                       => session.completedPhases = session.totalPhases)
    /\ [][\A sessionId \in DOMAIN learningSessions :
            LET before == learningSessions[sessionId]
                after == learningSessions'[sessionId]
            IN  /\ after.completedTerms >= before.completedTerms
                /\ after.completedPhases >= before.completedPhases
                /\ IF before.currentPhaseIndex = NoPhase
                   THEN after.currentPhaseIndex = NoPhase
                   ELSE \/ after.currentPhaseIndex = NoPhase
                        \/ after.currentPhaseIndex >= before.currentPhaseIndex
       ]_vars

\* s1 has every phase complete and no current phase, and a reply recorded
\* after that has named one of its terms again.
C28_Witness ==
    /\ learningSessions["s1"].currentPhaseIndex = NoPhase
    /\ learningSessions["s1"].completedPhases = learningSessions["s1"].totalPhases
    /\ learningSessions["s1"].completedTerms = learningSessions["s1"].totalTerms
    /\ \E k \in 1..Len(sessionTerms) :
        /\ sessionTerms[k].sessionId = "s1"
        /\ sessionTerms[k].exposureCount = 2
        /\ \E j \in 1..Len(sessionTerms) :
            /\ sessionTerms[j].sessionId = "s1"
            /\ sessionTerms[j].firstCoveredAt > sessionTerms[k].firstCoveredAt
            /\ learningSessions["s1"].updatedAt > sessionTerms[j].firstCoveredAt

\* C29: for the same phase rows and term state buildPhaseProgress and
\* buildPhaseProgressSnapshot return, phase by phase, the same index,
\* totalTerms, completedTerms, remainingTerms and isComplete, so the counters
\* a finalize step derives from either are the same.
C29_AggregatorsAgree ==
    pgPc = "shown" =>
        /\ Len(pgSnapshot) = Len(pgProgress)
        /\ \A p \in 1..Len(pgProgress) :
            /\ pgSnapshot[p].index = pgProgress[p].index
            /\ pgSnapshot[p].totalTerms = pgProgress[p].totalTerms
            /\ pgSnapshot[p].completedTerms = pgProgress[p].completedTerms
            /\ pgSnapshot[p].remainingTerms = pgProgress[p].remainingTerms
            /\ pgSnapshot[p].isComplete = pgProgress[p].isComplete
        /\ Len(pgProgress) > 0 =>
               sessionAggregates(pgSnapshot, pgTerms) = sessionAggregates(pgProgress, pgTerms)

\* Both aggregators have run on two phases: the first with a covered and an
\* uncovered term, the second without any term.
C29_Witness ==
    /\ pgPc = "shown"
    /\ Len(pgSnapshot) = 2
    /\ pgSnapshot[1].totalTerms = 2
    /\ pgSnapshot[1].completedTerms = 1
    /\ Len(pgSnapshot[1].remainingTerms) = 1
    /\ pgSnapshot[2].totalTerms = 0
    /\ ~pgSnapshot[2].isComplete
    /\ ~pgProgress[2].isComplete

\* C30: every session's totalPhases is the number of its phase rows and its
\* totalTerms the number of its term rows; its phase rows carry the indices
\* 0..totalPhases-1, each once and each with at least one term; every term
\* row points at a phase row of its own session; and no phase or term row
\* belongs to a session that does not exist.
C30_PlanStructure ==
    /\ \A sessionId \in DOMAIN learningSessions :
        LET session == learningSessions[sessionId]
            phases == RowsOf(sessionPhases, sessionId)
            terms == RowsOf(sessionTerms, sessionId)
            indices == {phases[p].index : p \in 1..Len(phases)}
        IN  /\ session.totalPhases = Len(phases)
            /\ session.totalTerms = Len(terms)
            /\ indices = 0..(session.totalPhases - 1)
            /\ Cardinality(indices) = Len(phases)
            /\ \A index \in indices : \E k \in 1..Len(terms) : terms[k].phaseIndex = index
            /\ \A k \in 1..Len(terms) : terms[k].phaseIndex \in indices
    /\ \A p \in 1..Len(sessionPhases) : sessionPhases[p].sessionId \in DOMAIN learningSessions
    /\ \A k \in 1..Len(sessionTerms) : sessionTerms[k].sessionId \in DOMAIN learningSessions

\* A plan of two phases has been stored, the first with two key terms and the
\* second with one.
C30_Witness ==
    /\ NewSessionId \in DOMAIN learningSessions
    /\ learningSessions[NewSessionId].totalPhases = 2
    /\ learningSessions[NewSessionId].totalTerms = 3
    /\ Len(SelectSeq(RowsOf(sessionTerms, NewSessionId), LAMBDA term : term.phaseIndex = 0)) = 2
    /\ Len(SelectSeq(RowsOf(sessionTerms, NewSessionId), LAMBDA term : term.phaseIndex = 1)) = 1

====
